---- MODULE Spec2Model ----
(***************************************************************************)
(* scrip: flatten a directory tree into one text archive and restore it.   *)
(*                                                                         *)
(* Text is modelled character by character: a character is its code point, *)
(* a string is a sequence of code points, a byte string is a sequence of   *)
(* numbers 0..255.  A path of the file system is a sequence of names, a    *)
(* name is a string.                                                       *)
(***************************************************************************)
EXTENDS Integers, Sequences, FiniteSets, TLC

(***************************************************************************)
(* Characters                                                              *)
(***************************************************************************)
\* b'\x00', the byte is_binary looks for
NUL == 0
\* '\n'
LF == 10
\* '\r', which text-mode reading translates to '\n'
CR == 13
\* '/', the separator of pathlib's str() and of its parser
SLASH == 47
\* '.', of the '.' and '..' path components
DOT == 46
\* '=', the base64 padding character
PAD == 61

(***************************************************************************)
(* constants.py                                                            *)
(***************************************************************************)
\* "--- BEGIN FILE: "
BEGIN_FILE_PREFIX == <<45, 45, 45, 32, 66, 69, 71, 73, 78, 32, 70, 73, 76, 69, 58, 32>>
\* " ---"
BEGIN_FILE_SUFFIX == <<32, 45, 45, 45>>
\* "--- END FILE: "
END_FILE_PREFIX == <<45, 45, 45, 32, 69, 78, 68, 32, 70, 73, 76, 69, 58, 32>>
\* " ---"
END_FILE_SUFFIX == <<32, 45, 45, 45>>
\* "--- EMPTY DIR: "
EMPTY_DIR_PREFIX == <<45, 45, 45, 32, 69, 77, 80, 84, 89, 32, 68, 73, 82, 58, 32>>
\* " ---"
EMPTY_DIR_SUFFIX == <<32, 45, 45, 45>>
\* " (BINARY - BASE64 ENCODED)"
BINARY_MARKER == <<32, 40, 66, 73, 78, 65, 82, 89, 32, 45, 32, 66, 65, 83, 69, 54, 52, 32, 69, 78, 67, 79, 68, 69, 68, 41>>

(***************************************************************************)
(* Python string operations                                                *)
(***************************************************************************)
\* the value None where a string is expected: no string holds the character -1
None == <<-1>>

\* s.startswith(p)
startswith(s, p) == Len(s) >= Len(p) /\ SubSeq(s, 1, Len(p)) = p

\* s.endswith(p)
endswith(s, p) == Len(s) >= Len(p) /\ SubSeq(s, Len(s) - Len(p) + 1, Len(s)) = p

\* s[m:-n] for m, n > 0: empty when the two cuts cross
slice(s, m, n) == SubSeq(s, m + 1, Len(s) - n)

\* s.rstrip('\n')
RECURSIVE rstrip(_)
rstrip(s) == IF s # <<>> /\ s[Len(s)] = LF THEN rstrip(SubSeq(s, 1, Len(s) - 1)) ELSE s

\* ''.join(parts), computed by halves
RECURSIVE join(_)
join(parts) ==
    IF parts = <<>> THEN <<>>
    ELSE IF Len(parts) = 1 THEN parts[1]
    ELSE join(SubSeq(parts, 1, Len(parts) \div 2))
         \o join(SubSeq(parts, Len(parts) \div 2 + 1, Len(parts)))

\* sep.join(parts) for a one-character separator
RECURSIVE joinWith(_, _)
joinWith(sep, parts) ==
    IF parts = <<>> THEN <<>>
    ELSE IF Len(parts) = 1 THEN parts[1]
    ELSE parts[1] \o <<sep>> \o joinWith(sep, Tail(parts))

\* c in s
contains(s, c) == \E i \in 1..Len(s) : s[i] = c

(***************************************************************************)
(* parser.py                                                               *)
(***************************************************************************)
\* parse_begin_file_line(line) -> (path_str, is_binary) or (None, False)
parse_begin_file_line(line) ==
    IF startswith(line, BEGIN_FILE_PREFIX) /\ endswith(line, BEGIN_FILE_SUFFIX)
    THEN LET path_part == slice(line, Len(BEGIN_FILE_PREFIX), Len(BEGIN_FILE_SUFFIX))
         IN  IF endswith(path_part, BINARY_MARKER)
             THEN <<slice(path_part, 0, Len(BINARY_MARKER)), TRUE>>
             ELSE <<path_part, FALSE>>
    ELSE <<None, FALSE>>

\* variant of parse_empty_dir_line that takes no line for a marker;
\* C27_NoEscaping depends on the lines of that shape being markers
parse_empty_dir_line_none(line) == None

\* parse_empty_dir_line(line) -> path_str or None
parse_empty_dir_line(line) ==
    IF startswith(line, EMPTY_DIR_PREFIX) /\ endswith(line, EMPTY_DIR_SUFFIX)
    THEN slice(line, Len(EMPTY_DIR_PREFIX), Len(EMPTY_DIR_SUFFIX))
    ELSE None

\* parse_end_file_line(line) -> (path_str, is_binary) or (None, False)
parse_end_file_line(line) ==
    IF startswith(line, END_FILE_PREFIX) /\ endswith(line, END_FILE_SUFFIX)
    THEN LET path_part == slice(line, Len(END_FILE_PREFIX), Len(END_FILE_SUFFIX))
         IN  IF endswith(path_part, BINARY_MARKER)
             THEN <<slice(path_part, 0, Len(BINARY_MARKER)), TRUE>>
             ELSE <<path_part, FALSE>>
    ELSE <<None, FALSE>>

(***************************************************************************)
(* base64 (standard alphabet), as the standard library computes it         *)
(***************************************************************************)
\* the character of the sextet i
b64char(i) ==
    IF i < 26 THEN 65 + i
    ELSE IF i < 52 THEN 71 + i
    ELSE IF i < 62 THEN i - 4
    ELSE IF i = 62 THEN 43 ELSE 47

\* the sextet of the character c, 64 when c is outside the alphabet
b64index(c) ==
    IF c >= 65 /\ c <= 90 THEN c - 65
    ELSE IF c >= 97 /\ c <= 122 THEN c - 71
    ELSE IF c >= 48 /\ c <= 57 THEN c + 4
    ELSE IF c = 43 THEN 62
    ELSE IF c = 47 THEN 63 ELSE 64

\* base64.b64encode(bs).decode('ascii'): no line wrapping, '=' padding
RECURSIVE b64encode(_)
b64encode(bs) ==
    IF bs = <<>> THEN <<>>
    ELSE IF Len(bs) = 1
    THEN <<b64char(bs[1] \div 4), b64char((bs[1] % 4) * 16), PAD, PAD>>
    ELSE IF Len(bs) = 2
    THEN <<b64char(bs[1] \div 4), b64char((bs[1] % 4) * 16 + bs[2] \div 16),
           b64char((bs[2] % 16) * 4), PAD>>
    ELSE <<b64char(bs[1] \div 4), b64char((bs[1] % 4) * 16 + bs[2] \div 16),
           b64char((bs[2] % 16) * 4 + bs[3] \div 64), b64char(bs[3] % 64)>>
         \o b64encode(SubSeq(bs, 4, Len(bs)))

\* binascii.a2b_base64 without strict mode, from character i of s on:
\* characters outside the alphabet are skipped, a complete pad sequence ends
\* the input, an incomplete last quad is an error
RECURSIVE a2b_base64(_, _, _, _, _, _)
a2b_base64(s, i, quad_pos, leftchar, pads, out) ==
    IF i > Len(s)
    THEN IF quad_pos # 0 THEN [error |-> "binascii.Error", bytes |-> <<>>]
         ELSE [error |-> "none", bytes |-> out]
    ELSE IF s[i] = PAD
    THEN IF quad_pos >= 2 /\ quad_pos + pads + 1 >= 4
         THEN [error |-> "none", bytes |-> out]
         ELSE a2b_base64(s, i + 1, quad_pos, leftchar,
                         IF quad_pos >= 2 THEN pads + 1 ELSE pads, out)
    ELSE LET this_ch == b64index(s[i]) IN
         IF this_ch >= 64 THEN a2b_base64(s, i + 1, quad_pos, leftchar, pads, out)
         ELSE IF quad_pos = 0 THEN a2b_base64(s, i + 1, 1, this_ch, 0, out)
         ELSE IF quad_pos = 1
         THEN a2b_base64(s, i + 1, 2, this_ch % 16, 0,
                         Append(out, leftchar * 4 + this_ch \div 16))
         ELSE IF quad_pos = 2
         THEN a2b_base64(s, i + 1, 3, this_ch % 4, 0,
                         Append(out, leftchar * 16 + this_ch \div 4))
         ELSE a2b_base64(s, i + 1, 0, 0, 0, Append(out, leftchar * 64 + this_ch))

\* base64.b64decode(s) of a str: the str is first encoded as ASCII, which
\* raises ValueError on a character above 127
b64decode(s) ==
    IF \E i \in 1..Len(s) : s[i] > 127
    THEN [error |-> "ValueError", bytes |-> <<>>]
    ELSE a2b_base64(s, 1, 0, 0, 0, <<>>)

(***************************************************************************)
(* UTF-8                                                                   *)
(***************************************************************************)
\* bytes.decode('utf-8', errors='ignore') for byte strings whose bytes above
\* 127 form no valid sequence (a lone 0xFF never does): those bytes are dropped
decode_ignore(bs) == SelectSeq(bs, LAMBDA b : b < 128)

\* str.encode('utf-8') for code points below 2048, as a text-mode file writes
encode_utf8(s) ==
    join([i \in 1..Len(s) |->
            IF s[i] < 128 THEN <<s[i]>>
            ELSE <<192 + (s[i] \div 64), 128 + (s[i] % 64)>>])

\* reading a text file opened with newline=None: '\r\n' and '\r' become '\n'
universal_newlines(s) ==
    SelectSeq([i \in 1..Len(s) |->
                 IF s[i] = LF /\ i > 1 /\ s[i - 1] = CR THEN -1
                 ELSE IF s[i] = CR THEN LF ELSE s[i]],
              LAMBDA c : c # -1)

\* the lines a text file iterates over: each keeps its '\n', the last one
\* has none when the text does not end with one
RECURSIVE splitlines(_)
splitlines(s) ==
    IF s = <<>> THEN <<>>
    ELSE LET ends == {i \in 1..Len(s) : s[i] = LF} IN
         IF ends = {} THEN <<s>>
         ELSE LET first == CHOOSE i \in ends : \A j \in ends : i <= j
              IN  <<SubSeq(s, 1, first)>> \o splitlines(SubSeq(s, first + 1, Len(s)))

\* for line in open(path, 'r', encoding='utf-8')
readlines(text) == splitlines(universal_newlines(text))

(***************************************************************************)
(* pathlib and the file system                                             *)
(*                                                                         *)
(* A file system maps each existing absolute path (the sequence of its     *)
(* names, <<>> for '/') to its entry.  A pathlib path is the sequence of   *)
(* its parts after the root; it may hold '..' parts, which only the        *)
(* operating system resolves.                                              *)
(***************************************************************************)
\* a directory entry
Dir == [kind |-> "dir", data |-> <<>>]

\* a regular file holding the bytes data
File(data) == [kind |-> "file", data |-> data]

\* the part '..'
DOTDOT == <<DOT, DOT>>

\* the result of a path lookup that fails (os.stat raising ENOENT or ENOTDIR)
NoPath == <<None>>

\* path_str.split('/')
RECURSIVE split(_, _)
split(path_str, cur) ==
    IF path_str = <<>> THEN <<cur>>
    ELSE IF Head(path_str) = SLASH THEN <<cur>> \o split(Tail(path_str), <<>>)
    ELSE split(Tail(path_str), Append(cur, Head(path_str)))

\* the parts pathlib keeps of a path string: empty and '.' parts are dropped
parse_parts(path_str) ==
    SelectSeq(split(path_str, <<>>), LAMBDA part : part # <<>> /\ part # <<DOT>>)

\* root / path_str: an absolute path_str replaces root
joinpath(root, path_str) ==
    IF path_str # <<>> /\ Head(path_str) = SLASH THEN parse_parts(path_str)
    ELSE root \o parse_parts(path_str)

\* path.parent: lexical, '..' parts are not resolved
parent(path) == IF path = <<>> THEN <<>> ELSE SubSeq(path, 1, Len(path) - 1)

\* str(relative_path)
str(relative_path) ==
    IF relative_path = <<>> THEN <<DOT>> ELSE joinWith(SLASH, relative_path)

\* path.relative_to(root): lexical too; None stands for the ValueError raised
\* when root is no prefix of path
relative_to(path, root) ==
    IF Len(path) >= Len(root) /\ SubSeq(path, 1, Len(root)) = root
    THEN SubSeq(path, Len(root) + 1, Len(path))
    ELSE NoPath

\* the operating system's walk along the parts of a path, from the existing
\* directory cur: the place the path names (which may not exist), or NoPath
\* when a part before the last is no directory
RECURSIVE walk(_, _, _)
walk(filesystem, cur, parts) ==
    IF parts = <<>> THEN cur
    ELSE IF cur \notin DOMAIN filesystem \/ filesystem[cur].kind # "dir" THEN NoPath
    ELSE IF Head(parts) = DOTDOT THEN walk(filesystem, parent(cur), Tail(parts))
    ELSE walk(filesystem, Append(cur, Head(parts)), Tail(parts))

\* path.exists()
exists(filesystem, path) ==
    LET at == walk(filesystem, <<>>, path) IN at # NoPath /\ at \in DOMAIN filesystem

\* variant of mkdir without exist_ok: it fails when the last part exists;
\* C29_EmptyArchiveDirRoot depends on an existing directory being accepted
RECURSIVE mkdir_exclusive(_, _, _)
mkdir_exclusive(filesystem, cur, parts) ==
    IF parts = <<>> THEN [fs |-> filesystem, error |-> "none"]
    ELSE IF Head(parts) = DOTDOT THEN mkdir_exclusive(filesystem, parent(cur), Tail(parts))
    ELSE LET next == Append(cur, Head(parts)) IN
         IF next \notin DOMAIN filesystem
         THEN mkdir_exclusive((next :> Dir) @@ filesystem, next, Tail(parts))
         ELSE IF filesystem[next].kind = "dir" /\ Tail(parts) # <<>>
         THEN mkdir_exclusive(filesystem, next, Tail(parts))
         ELSE [fs |-> filesystem, error |-> "OSError"]

\* path.mkdir(parents=True, exist_ok=True): creates every missing directory
\* along the path, fails on a part that is a regular file
RECURSIVE mkdir(_, _, _)
mkdir(filesystem, cur, parts) ==
    IF parts = <<>> THEN [fs |-> filesystem, error |-> "none"]
    ELSE IF Head(parts) = DOTDOT THEN mkdir(filesystem, parent(cur), Tail(parts))
    ELSE LET next == Append(cur, Head(parts)) IN
         IF next \notin DOMAIN filesystem
         THEN mkdir((next :> Dir) @@ filesystem, next, Tail(parts))
         ELSE IF filesystem[next].kind = "dir" THEN mkdir(filesystem, next, Tail(parts))
         ELSE [fs |-> filesystem, error |-> "OSError"]

\* open(path, 'w' or 'wb'): creates or truncates the file; fails when the path
\* names a directory or when its directory is missing
open(filesystem, path) ==
    LET at == walk(filesystem, <<>>, path) IN
    IF at = NoPath THEN [fs |-> filesystem, error |-> "OSError", at |-> NoPath]
    ELSE IF at \in DOMAIN filesystem /\ filesystem[at].kind = "dir"
    THEN [fs |-> filesystem, error |-> "OSError", at |-> NoPath]
    ELSE [fs |-> (at :> File(<<>>)) @@ filesystem, error |-> "none", at |-> at]

\* variant of close that leaves the file open; C20_SingleOpenFile depends on
\* the file being closed before the next one is opened
close_nothing(handles, file_handle) == handles

\* file_handle.close(): the files still open after it
close(handles, file_handle) == handles \ {file_handle}

\* file_handle.write(data) on the file opened at the place at
write(filesystem, at, data) == [filesystem EXCEPT ![at].data = @ \o data]

(***************************************************************************)
(* Bounds and inputs of the model                                          *)
(***************************************************************************)
\* longest content of the file of a one-file source tree
MaxLen == 3
\* most lines of a hand-made archive
MaxLines == 3
\* most flatten runs over one source tree
MaxRuns == 2
\* is_binary reads the first 1024 bytes; the model scales that chunk to 2 bytes
ChunkSize == 2

\* the bytes file contents are made of: NUL, '\n', 'a' and 0xFF (never valid UTF-8)
Bytes == {NUL, LF, 97, 255}

\* the names 'a', 'b', 'a-' ('-' sorts before '/'), 'd' and 'x'
N_a == <<97>>
N_b == <<98>>
N_a_dash == <<97, 45>>
N_d == <<100>>
N_x == <<120>>

\* the destination directory restore is called with, resolved: /d
output_root == <<N_d>>

\* all byte strings of at most n bytes
BytesUpTo(n) == UNION {[1..k -> Bytes] : k \in 0..n}

\* text file contents with a line that has the shape of a marker:
\* "--- EMPTY DIR: a/b ---", "--- EMPTY DIR: a- ---" and the line "a" before
\* "--- EMPTY DIR: a/b ---"
MarkerContents ==
    { EMPTY_DIR_PREFIX \o <<97, SLASH, 98>> \o EMPTY_DIR_SUFFIX \o <<LF>>,
      EMPTY_DIR_PREFIX \o <<97, 45>> \o EMPTY_DIR_SUFFIX \o <<LF>>,
      <<97, LF>> \o EMPTY_DIR_PREFIX \o <<97, SLASH, 98>> \o EMPTY_DIR_SUFFIX \o <<LF>> }

\* the contents of the files of the trees with several entries
SmallContents == {<<>>, <<97>>, <<97, LF>>, <<NUL>>} \cup MarkerContents

\* the source tree without entries
EmptyTree == [path \in {} |-> Dir]

\* source trees of one file 'a', with every content up to MaxLen
ContentTrees == {(<<N_a>> :> File(data)) : data \in BytesUpTo(MaxLen)}

\* no entry at a path
Absent == [kind |-> "absent", data |-> <<>>]

\* a regular file that cannot be opened for reading
Unreadable == [kind |-> "unreadable", data |-> <<>>]

\* the entries a path may hold in a tree of several entries
Entries == {Dir, Unreadable} \cup {File(data) : data \in SmallContents}

\* a tree given by the entries of a, a/b and a-
Tree(a, ab, adash) ==
    (IF a = Absent THEN EmptyTree ELSE (<<N_a>> :> a))
    @@ (IF ab = Absent THEN EmptyTree ELSE (<<N_a, N_b>> :> ab))
    @@ (IF adash = Absent THEN EmptyTree ELSE (<<N_a_dash>> :> adash))

\* the names file.txt and empty
N_file_txt == <<102, 105, 108, 101, 46, 116, 120, 116>>
N_empty == <<101, 109, 112, 116, 121>>

\* the tree of the file a/file.txt, which holds 'hi', and the empty directory
\* a/empty
ScenarioTree ==
    (<<N_a>> :> Dir) @@ (<<N_a, N_file_txt>> :> File(<<104, 105>>))
        @@ (<<N_a, N_empty>> :> Dir)

\* source trees over the paths a, a/b and a-: a/b needs the directory a
ShapeTrees ==
    {Tree(a, Absent, adash) : a \in Entries \cup {Absent}, adash \in Entries \cup {Absent}}
    \cup {Tree(Dir, ab, adash) : ab \in Entries, adash \in Entries \cup {Absent}}

\* trees of one text file with a carriage return: a line ending '\r\n', and a
\* final '\r'
ReturnTrees == {(<<N_a>> :> File(data)) : data \in {<<97, CR, LF>>, <<97, CR>>}}

SourceTrees == ContentTrees \cup ShapeTrees \cup {ScenarioTree} \cup ReturnTrees

\* the file system that holds '/' only
RootOnly == (<<>> :> Dir)

\* fresh destinations: /d missing, /d an empty directory
FreshFileSystems == {RootOnly, (output_root :> Dir) @@ RootOnly}

\* a destination that holds the file /d/a, next to the directory /x
Occupied ==
    (<<N_d, N_a>> :> File(<<111>>)) @@ (<<N_x>> :> Dir) @@ (output_root :> Dir) @@ RootOnly

\* a destination path that names a regular file
RootIsFile == (output_root :> File(<<111>>)) @@ RootOnly

DestFileSystems == FreshFileSystems \cup {Occupied, RootIsFile}

\* the lines hand-made archives are made of
BeginLine(path_str, marker) == BEGIN_FILE_PREFIX \o path_str \o marker \o BEGIN_FILE_SUFFIX \o <<LF>>
EndLine(path_str, marker) == END_FILE_PREFIX \o path_str \o marker \o END_FILE_SUFFIX \o <<LF>>
EmptyDirLine(path_str) == EMPTY_DIR_PREFIX \o path_str \o EMPTY_DIR_SUFFIX \o <<LF>>

LinePool ==
    { BeginLine(<<97>>, <<>>),                  \* --- BEGIN FILE: a ---
      BeginLine(<<97>>, BINARY_MARKER),         \* --- BEGIN FILE: a (BINARY - BASE64 ENCODED) ---
      EndLine(<<97>>, <<>>),                    \* --- END FILE: a ---
      EmptyDirLine(<<97, SLASH, 98>>),          \* --- EMPTY DIR: a/b ---
      EmptyDirLine(<<DOT, DOT, SLASH, 120>>),   \* --- EMPTY DIR: ../x ---
      EmptyDirLine(<<SLASH, 120>>),             \* --- EMPTY DIR: /x ---
      <<89, 81, 61, 61, LF>>,                   \* YQ==   (base64 of 'a')
      <<233, LF>>,                              \* e-acute, not ASCII
      BeginLine(<<98>>, <<>>),                  \* --- BEGIN FILE: b ---
      <<104>> }                                 \* h, with no line end

\* the path string b/../a: it names the place of a through a directory b
S_b_up_a == <<98, SLASH, DOT, DOT, SLASH, 97>>

\* archives of one file record whose path goes through a directory that may
\* not exist yet: the record of b/../a, empty and with the content line h
TraversalArchives ==
    { BeginLine(S_b_up_a, <<>>) \o EndLine(S_b_up_a, <<>>),
      BeginLine(S_b_up_a, <<>>) \o <<104, LF>> \o EndLine(S_b_up_a, <<>>) }

\* hand-made archives: at most MaxLines lines of the pool, and the archives
\* of a path through '..'
CraftedArchives ==
    {join(ls) : ls \in UNION {[1..k -> LinePool] : k \in 0..MaxLines}} \cup TraversalArchives

(***************************************************************************)
(* State                                                                   *)
(***************************************************************************)
VARIABLES
    input_kind,             \* what the input path of the first call names
    src,                    \* the source tree: relative path -> entry
    archive,                \* the text of the archive file, None when missing
    prev_archive,           \* the archive file before the last flatten call
    run,                    \* flatten runs completed over src
    items,                  \* flatten: the sorted entries still to process
    records,                \* flatten: the records written, in order
    fs,                     \* the file system restore works on
    fs0,                    \* that file system when the model starts
    pc,                     \* where the program is
    lines,                  \* restore: the lines of the input file
    pos,                    \* restore: the number of the next line
    conflicts,              \* restore: _check_conflicts' list
    current_file_handle,    \* restore: the place of the open file, or NoPath
    current_file_path,      \* restore: output_root / begin_path
    current_file_is_binary, \* restore: the flag of the BEGIN marker
    expected_end_path,      \* restore: the path string of the BEGIN marker
    content_buffer,         \* restore: the lines buffered for the open file
    open_handles,           \* restore: the places of the files not yet closed
    warnings,               \* restore: the warnings printed, in order
    error,                  \* the exception restore raised, or "none"
    message                 \* the paths listed by the conflict error

vars == <<input_kind, src, archive, prev_archive, run, items, records, fs, fs0, pc, lines, pos,
          conflicts, current_file_handle, current_file_path, current_file_is_binary,
          expected_end_path, content_buffer, open_handles, warnings, error, message>>

flatten_vars == <<archive, prev_archive, run, items, records>>

restore_vars == <<lines, pos, conflicts, current_file_handle, current_file_path,
                  current_file_is_binary, expected_end_path, content_buffer,
                  open_handles, warnings, error, message>>

\* restore's locals before the first line
NoRestore ==
    /\ lines = <<>>
    /\ pos = 1
    /\ conflicts = <<>>
    /\ current_file_handle = NoPath
    /\ current_file_path = NoPath
    /\ current_file_is_binary = FALSE
    /\ expected_end_path = None
    /\ content_buffer = <<>>
    /\ open_handles = {}
    /\ warnings = <<>>
    /\ error = "none"
    /\ message = <<>>

\* the output file before flatten is called: missing, or left by an earlier use
OutputFiles == {None, <<111, LF>>}

\* either flatten is about to be called on a path that names a source tree, a
\* file or nothing, with a fresh destination for a later restore, or restore
\* is about to be called on a path that names a hand-made archive, a directory
\* or nothing
Init ==
    /\ \/ /\ pc = "flatten_call"
          /\ \/ input_kind = "dir" /\ src \in SourceTrees
             \/ input_kind \in {"file", "missing"} /\ src = EmptyTree
          /\ archive \in OutputFiles
          /\ fs \in FreshFileSystems
       \/ /\ pc = "restore_call"
          /\ src = EmptyTree
          /\ \/ input_kind = "file" /\ archive \in CraftedArchives
             \/ input_kind \in {"dir", "missing"} /\ archive = None
          /\ fs \in DestFileSystems
    /\ fs0 = fs
    /\ prev_archive = archive
    /\ run = 0
    /\ items = <<>>
    /\ records = <<>>
    /\ NoRestore

(***************************************************************************)
(* flattener.py                                                            *)
(***************************************************************************)
\* a < b for str
RECURSIVE str_lt(_, _)
str_lt(a, b) ==
    IF b = <<>> THEN FALSE
    ELSE IF a = <<>> THEN TRUE
    ELSE IF Head(a) # Head(b) THEN Head(a) < Head(b)
    ELSE str_lt(Tail(a), Tail(b))

\* variant of path_lt that compares the whole path strings; C6_PartsOrder
\* distinguishes the two
path_lt_string(p, q) == str_lt(str(p), str(q))

\* p < q for paths: pathlib compares the sequences of parts
RECURSIVE path_lt(_, _)
path_lt(p, q) ==
    IF q = <<>> THEN FALSE
    ELSE IF p = <<>> THEN TRUE
    ELSE IF Head(p) # Head(q) THEN str_lt(Head(p), Head(q))
    ELSE path_lt(Tail(p), Tail(q))

\* variant of sorted that keeps the order of the listing; C7_Determinism
\* depends on the sort
unsorted(listing) == listing

\* sorted(listing)
RECURSIVE sorted(_)
sorted(listing) ==
    IF listing = <<>> THEN <<>>
    ELSE LET rest == sorted(Tail(listing))
             before == SelectSeq(rest, LAMBDA q : path_lt(q, Head(listing)))
             after == SelectSeq(rest, LAMBDA q : ~path_lt(q, Head(listing)))
         IN  before \o <<Head(listing)>> \o after

\* the orders in which root_path.rglob('*') may list the entries of the tree
Listings(tree) ==
    {l \in [1..Cardinality(DOMAIN tree) -> DOMAIN tree] :
        \A i, j \in DOMAIN l : i # j => l[i] # l[j]}

\* variant of has_children that counts files only; C8_EmptyDirRecord
\* depends on subdirectories being counted
has_child_files(tree, dir_path) ==
    \E q \in DOMAIN tree :
        /\ Len(q) = Len(dir_path) + 1
        /\ SubSeq(q, 1, Len(dir_path)) = dir_path
        /\ tree[q].kind = "file"

\* any(dir_path.iterdir())
has_children(tree, dir_path) ==
    \E q \in DOMAIN tree : Len(q) = Len(dir_path) + 1 /\ SubSeq(q, 1, Len(dir_path)) = dir_path

\* variant of is_binary that looks at the first byte only; C2_BinaryRoundTrip
\* depends on the whole chunk being searched
is_binary_first_byte(data) == data # <<>> /\ data[1] = NUL

\* is_binary(file_path): a NUL among the first ChunkSize bytes
is_binary(data) ==
    contains(SubSeq(data, 1, IF Len(data) < ChunkSize THEN Len(data) ELSE ChunkSize), NUL)

\* what _write_binary_file writes
write_binary_file(data) == b64encode(data) \o <<LF>>

\* variant of write_text_file that never adds a newline; C16_ScenarioArchive
\* depends on the newline after 'hi'
write_text_file_no_newline(data) == decode_ignore(data)

\* variant of write_text_file that adds the newline every time;
\* C13_NewlineRule depends on the test of the last byte
write_text_file_always_newline(data) == decode_ignore(data) \o <<LF>>

\* what _write_text_file writes
write_text_file(data) ==
    decode_ignore(data) \o (IF endswith(data, <<LF>>) THEN <<>> ELSE <<LF>>)

\* what _process_empty_directory writes for the directory at relative_path
process_empty_directory(tree, relative_path) ==
    IF ~has_children(tree, relative_path)
    THEN EMPTY_DIR_PREFIX \o str(relative_path) \o EMPTY_DIR_SUFFIX \o <<LF>>
    ELSE <<>>

\* what _process_file writes for the file at relative_path
process_file(relative_path, data) ==
    LET is_bin == is_binary(data)
        marker == IF is_bin THEN BINARY_MARKER ELSE <<>>
    IN  BEGIN_FILE_PREFIX \o str(relative_path) \o marker \o BEGIN_FILE_SUFFIX \o <<LF>>
        \o (IF is_bin THEN write_binary_file(data) ELSE write_text_file(data))
        \o END_FILE_PREFIX \o str(relative_path) \o marker \o END_FILE_SUFFIX \o <<LF>>

\* variant of FlattenInvalid that opens the output file before the test;
\* C12_InvalidInput depends on the test coming first
FlattenInvalidAfterOpen ==
    /\ pc = "flatten_call"
    /\ input_kind # "dir"
    /\ pc' = "flatten_failed"
    /\ error' = "ValueError"
    /\ archive' = <<>>
    /\ UNCHANGED <<input_kind, src, prev_archive, run, items, records, fs, fs0, lines,
                   pos, conflicts, current_file_handle, current_file_path,
                   current_file_is_binary, expected_end_path, content_buffer,
                   open_handles, warnings, message>>

\* ScripFlattener.flatten on a path that is no directory: ValueError, before
\* the output file is opened
FlattenInvalid ==
    /\ pc = "flatten_call"
    /\ input_kind # "dir"
    /\ pc' = "flatten_failed"
    /\ error' = "ValueError"
    /\ UNCHANGED <<input_kind, src, fs, fs0, lines, pos, conflicts, current_file_handle,
                   current_file_path, current_file_is_binary, expected_end_path,
                   content_buffer, open_handles, warnings, message>>
    /\ UNCHANGED flatten_vars

\* variant of Flatten that opens the output file without truncating it;
\* C30_EmptySource depends on the mode 'w'
FlattenAppend ==
    /\ pc \in {"flatten_call", "flattened"}
    /\ input_kind = "dir"
    /\ run < MaxRuns
    /\ \E listing \in Listings(src) : items' = sorted(listing)
    /\ prev_archive' = archive
    /\ archive' = IF archive = None THEN <<>> ELSE archive
    /\ records' = <<>>
    /\ pc' = "flatten"
    /\ UNCHANGED <<input_kind, src, run, fs, fs0>>
    /\ UNCHANGED restore_vars

\* ScripFlattener.flatten up to the loop: the output file is opened (and
\* truncated), the entries are listed and sorted
Flatten ==
    /\ pc \in {"flatten_call", "flattened"}
    /\ input_kind = "dir"
    /\ run < MaxRuns
    /\ \E listing \in Listings(src) : items' = sorted(listing)
    /\ prev_archive' = archive
    /\ archive' = <<>>
    /\ records' = <<>>
    /\ pc' = "flatten"
    /\ UNCHANGED <<input_kind, src, run, fs, fs0>>
    /\ UNCHANGED restore_vars

\* one turn of _process_directory's loop on a directory
ProcessEmptyDirectory ==
    /\ pc = "flatten"
    /\ items # <<>>
    /\ src[Head(items)].kind = "dir"
    /\ LET text == process_empty_directory(src, Head(items)) IN
       /\ archive' = archive \o text
       /\ records' = IF text = <<>> THEN records
                     ELSE Append(records, [kind |-> "dir", path |-> Head(items),
                                           binary |-> FALSE])
    /\ items' = Tail(items)
    /\ UNCHANGED <<input_kind, src, prev_archive, run, fs, fs0, pc>>
    /\ UNCHANGED restore_vars

\* "Error reading file content: "
READ_ERROR_PREFIX ==
    <<69, 114, 114, 111, 114, 32, 114, 101, 97, 100, 105, 110, 103, 32, 102, 105, 108,
      101, 32, 99, 111, 110, 116, 101, 110, 116, 58, 32>>

\* str(e) of the exception the read raised: "Permission denied"
ReadErrorMessage ==
    <<80, 101, 114, 109, 105, 115, 115, 105, 111, 110, 32, 100, 101, 110, 105, 101, 100>>

\* variant of process_unreadable_file that stops after the BEGIN marker;
\* C17_ReadFailure depends on the diagnostic line and the END marker
process_unreadable_file_begin_only(relative_path) ==
    BEGIN_FILE_PREFIX \o str(relative_path) \o BEGIN_FILE_SUFFIX \o <<LF>>

\* what _process_file writes for a file that cannot be read: is_binary answers
\* False, the read raises and the diagnostic line takes the place of the content
process_unreadable_file(relative_path) ==
    BEGIN_FILE_PREFIX \o str(relative_path) \o BEGIN_FILE_SUFFIX \o <<LF>>
    \o READ_ERROR_PREFIX \o ReadErrorMessage \o <<LF>>
    \o END_FILE_PREFIX \o str(relative_path) \o END_FILE_SUFFIX \o <<LF>>

\* one turn of _process_directory's loop on a file
ProcessFile ==
    /\ pc = "flatten"
    /\ items # <<>>
    /\ src[Head(items)].kind \in {"file", "unreadable"}
    /\ archive' = archive \o (IF src[Head(items)].kind = "file"
                              THEN process_file(Head(items), src[Head(items)].data)
                              ELSE process_unreadable_file(Head(items)))
    /\ records' = Append(records, [kind |-> src[Head(items)].kind, path |-> Head(items),
                                    binary |-> /\ src[Head(items)].kind = "file"
                                               /\ is_binary(src[Head(items)].data)])
    /\ items' = Tail(items)
    /\ UNCHANGED <<input_kind, src, prev_archive, run, fs, fs0, pc>>
    /\ UNCHANGED restore_vars

\* the loop is over: the output file is closed and flatten returns
FlattenReturn ==
    /\ pc = "flatten"
    /\ items = <<>>
    /\ pc' = "flattened"
    /\ run' = run + 1
    /\ UNCHANGED <<input_kind, src, archive, prev_archive, items, records, fs, fs0>>
    /\ UNCHANGED restore_vars

(***************************************************************************)
(* restorer.py                                                             *)
(***************************************************************************)
\* variant of strip_added_newline that removes the final newline every time;
\* C14_TextDecodeRule depends on the test of the character before it
strip_final_newline(file_content) ==
    IF endswith(file_content, <<LF>>)
    THEN SubSeq(file_content, 1, Len(file_content) - 1)
    ELSE file_content

\* the text rule of _write_buffered_content: a final newline is removed
\* unless the character before it is a newline too
strip_added_newline(file_content) ==
    IF endswith(file_content, <<LF>>)
    THEN IF Len(file_content) >= 2 /\ file_content[Len(file_content) - 1] = LF
         THEN file_content
         ELSE SubSeq(file_content, 1, Len(file_content) - 1)
    ELSE file_content

\* _write_buffered_content(file_handle, content_buffer, is_binary): the file
\* system after it, the warnings it prints and the exception it lets through
write_buffered_content(filesystem, file_handle, buffer, is_bin) ==
    IF buffer = <<>> THEN [fs |-> filesystem, warnings |-> <<>>, error |-> "none"]
    ELSE IF is_bin
    THEN LET decoded == b64decode(rstrip(buffer[1])) IN
         IF decoded.error = "none"
         THEN [fs |-> write(filesystem, file_handle, decoded.bytes),
               warnings |-> <<>>, error |-> "none"]
         ELSE IF decoded.error = "binascii.Error"
         THEN [fs |-> filesystem, warnings |-> <<"decode">>, error |-> "none"]
         ELSE [fs |-> filesystem, warnings |-> <<>>, error |-> decoded.error]
    ELSE [fs |-> write(filesystem, file_handle, encode_utf8(strip_added_newline(join(buffer)))),
          warnings |-> <<>>, error |-> "none"]

\* "if current_file_handle: self._write_buffered_content(...)"
flush(filesystem, file_handle, buffer, is_bin) ==
    IF file_handle # NoPath
    THEN write_buffered_content(filesystem, file_handle, buffer, is_bin)
    ELSE [fs |-> filesystem, warnings |-> <<>>, error |-> "none"]

\* variant of handle_begin_file that does not make the parent directories;
\* C28_FlattenedOrderIndependence depends on each record making its own
handle_begin_file_no_parents(filesystem, path_str, current_handle) ==
    LET opened == open(filesystem, joinpath(output_root, path_str))
        warned == IF current_handle # NoPath THEN <<"begin_before_end">> ELSE <<>>
    IN  [fs |-> opened.fs, handle |-> opened.at, warnings |-> warned, error |-> opened.error]

\* _handle_begin_file(path_str, is_binary, current_handle, ...): the parent
\* directories are made, then the target is opened
handle_begin_file(filesystem, path_str, current_handle) ==
    LET target_path == joinpath(output_root, path_str)
        made == mkdir(filesystem, <<>>, parent(target_path))
        opened == open(made.fs, target_path)
        warned == IF current_handle # NoPath THEN <<"begin_before_end">> ELSE <<>>
    IN  IF made.error # "none"
        THEN [fs |-> made.fs, handle |-> NoPath, warnings |-> warned, error |-> made.error]
        ELSE [fs |-> opened.fs, handle |-> opened.at, warnings |-> warned,
              error |-> opened.error]

\* variant of handle_empty_dir without parents=True; C9_EmptyDirPreserved
\* depends on the missing parents being made
handle_empty_dir_no_parents(filesystem, path_str, current_handle) ==
    LET target_path == joinpath(output_root, path_str)
        made == mkdir(filesystem, <<>>, target_path)
        warned == IF current_handle # NoPath THEN <<"empty_dir_in_file">> ELSE <<>>
    IN  IF exists(filesystem, parent(target_path))
        THEN [fs |-> made.fs, warnings |-> warned, error |-> made.error]
        ELSE [fs |-> filesystem, warnings |-> warned, error |-> "OSError"]

\* _handle_empty_dir(path_str, current_handle, ...)
handle_empty_dir(filesystem, path_str, current_handle) ==
    LET made == mkdir(filesystem, <<>>, joinpath(output_root, path_str))
        warned == IF current_handle # NoPath THEN <<"empty_dir_in_file">> ELSE <<>>
    IN  [fs |-> made.fs, warnings |-> warned, error |-> made.error]

\* variant of handle_end_file that says nothing when no file is open;
\* C25_StrayEnd depends on the warning
handle_end_file_silent(path_str, is_bin, current_handle, expected_path, current_is_binary) ==
    IF current_handle # NoPath /\ (path_str # expected_path \/ is_bin # current_is_binary)
    THEN <<"end_mismatch">> ELSE <<>>

\* the warnings of _handle_end_file(path_str, is_binary, current_handle, ...)
handle_end_file(path_str, is_bin, current_handle, expected_path, current_is_binary) ==
    IF current_handle # NoPath
    THEN IF path_str # expected_path \/ is_bin # current_is_binary
         THEN <<"end_mismatch">> ELSE <<>>
    ELSE <<"end_without_file">>

\* ScripRestorer.restore on a path that is no regular file: ValueError, before
\* anything else
RestoreInvalid ==
    /\ pc = "restore_call"
    /\ input_kind # "file"
    /\ pc' = "failed"
    /\ error' = "ValueError"
    /\ UNCHANGED <<input_kind, src, fs, fs0, lines, pos, conflicts, current_file_handle,
                   current_file_path, current_file_is_binary, expected_end_path,
                   content_buffer, open_handles, warnings, message>>
    /\ UNCHANGED flatten_vars

\* ScripRestorer.restore up to the conflict scan: the input file is opened
RestoreCall ==
    /\ pc = "flattened" \/ (pc = "restore_call" /\ input_kind = "file")
    /\ pc' = "check"
    /\ lines' = readlines(archive)
    /\ pos' = 1
    /\ conflicts' = <<>>
    /\ UNCHANGED <<input_kind, src, fs, fs0, current_file_handle, current_file_path,
                   current_file_is_binary, expected_end_path, content_buffer,
                   open_handles, warnings, error, message>>
    /\ UNCHANGED flatten_vars

\* one turn of _check_conflicts' loop
CheckConflicts ==
    /\ pc = "check"
    /\ pos <= Len(lines)
    /\ LET line_rstrip == rstrip(lines[pos])
           begin_path == parse_begin_file_line(line_rstrip)[1]
           path_str == IF begin_path # None THEN begin_path
                       ELSE parse_empty_dir_line(line_rstrip)
       IN  conflicts' = IF path_str # None /\ exists(fs, joinpath(output_root, path_str))
                        THEN Append(conflicts, joinpath(output_root, path_str))
                        ELSE conflicts
    /\ pos' = pos + 1
    /\ UNCHANGED <<input_kind, src, fs, fs0, pc, lines, current_file_handle, current_file_path,
                   current_file_is_binary, expected_end_path, content_buffer,
                   open_handles, warnings, error, message>>
    /\ UNCHANGED flatten_vars

\* _handle_conflicts: relative_to raises ValueError on a path that is not
\* under output_root, before the FileExistsError is built
HandleConflicts ==
    /\ pc = "check"
    /\ pos > Len(lines)
    /\ conflicts # <<>>
    /\ IF \E i \in DOMAIN conflicts : relative_to(conflicts[i], output_root) = NoPath
       THEN error' = "ValueError" /\ message' = <<>>
       ELSE /\ error' = "FileExistsError"
            /\ message' = [i \in DOMAIN conflicts |-> str(relative_to(conflicts[i], output_root))]
    /\ pc' = "failed"
    /\ UNCHANGED <<input_kind, src, fs, fs0, lines, pos, conflicts, current_file_handle,
                   current_file_path, current_file_is_binary, expected_end_path,
                   content_buffer, open_handles, warnings>>
    /\ UNCHANGED flatten_vars

\* variant of PerformRestoration that does not wait for the end of the
\* conflict scan; C21_PassOrdering depends on the scan being over
PerformRestorationEarly ==
    /\ pc = "check"
    /\ conflicts = <<>>
    /\ LET made == mkdir(fs, <<>>, output_root) IN
       /\ fs' = made.fs
       /\ IF made.error = "none"
          THEN pc' = "process" /\ error' = error
          ELSE pc' = "failed" /\ error' = "FileExistsError"
    /\ pos' = 1
    /\ UNCHANGED <<input_kind, src, fs0, lines, conflicts, current_file_handle, current_file_path,
                   current_file_is_binary, expected_end_path, content_buffer,
                   open_handles, warnings, message>>
    /\ UNCHANGED flatten_vars

\* _perform_restoration up to the loop: the root is made (mkdir raises
\* FileExistsError when the path names a regular file), the input reopened
PerformRestoration ==
    /\ pc = "check"
    /\ pos > Len(lines)
    /\ conflicts = <<>>
    /\ LET made == mkdir(fs, <<>>, output_root) IN
       /\ fs' = made.fs
       /\ IF made.error = "none"
          THEN pc' = "process" /\ error' = error
          ELSE pc' = "failed" /\ error' = "FileExistsError"
    /\ pos' = 1
    /\ UNCHANGED <<input_kind, src, fs0, lines, conflicts, current_file_handle, current_file_path,
                   current_file_is_binary, expected_end_path, content_buffer,
                   open_handles, warnings, message>>
    /\ UNCHANGED flatten_vars

\* variant of Raise that puts the file system back as it was; C18_WriteFailure
\* depends on what was made staying there
RaiseWithRollback(filesystem, printed, still_open) ==
    /\ fs' = fs0
    /\ warnings' = warnings \o printed
    /\ open_handles' = still_open
    /\ pc' = "failed"
    /\ error' = "IOError"
    /\ UNCHANGED <<lines, pos, conflicts, current_file_handle, current_file_path,
                   current_file_is_binary, expected_end_path, content_buffer, message>>

\* an exception leaves _process_file_contents: _perform_restoration raises
\* IOError from it; nothing closes a file that is still open
Raise(filesystem, printed, still_open) ==
    /\ fs' = filesystem
    /\ warnings' = warnings \o printed
    /\ open_handles' = still_open
    /\ pc' = "failed"
    /\ error' = "IOError"
    /\ UNCHANGED <<lines, pos, conflicts, current_file_handle, current_file_path,
                   current_file_is_binary, expected_end_path, content_buffer, message>>

\* "Reset file state"
ResetFileState ==
    /\ current_file_handle' = NoPath
    /\ current_file_is_binary' = FALSE
    /\ current_file_path' = NoPath
    /\ expected_end_path' = None
    /\ content_buffer' = <<>>

\* one turn of _process_file_contents' loop on a BEGIN FILE marker
BeginFile ==
    /\ pc = "process"
    /\ pos <= Len(lines)
    /\ LET begin == parse_begin_file_line(rstrip(lines[pos])) IN
       /\ begin[1] # None
       /\ LET flushed == flush(fs, current_file_handle, content_buffer, current_file_is_binary)
              begun == handle_begin_file(flushed.fs, begin[1], NoPath)
              closed == close(open_handles, current_file_handle)
          IN  IF flushed.error # "none"
              THEN Raise(flushed.fs, flushed.warnings, open_handles)
              ELSE IF begun.error # "none"
              THEN Raise(begun.fs, flushed.warnings \o begun.warnings, closed)
              ELSE /\ fs' = begun.fs
                   /\ warnings' = warnings \o flushed.warnings \o begun.warnings
                   /\ open_handles' = closed \cup {begun.handle}
                   /\ current_file_handle' = begun.handle
                   /\ current_file_is_binary' = begin[2]
                   /\ current_file_path' = joinpath(output_root, begin[1])
                   /\ expected_end_path' = begin[1]
                   /\ content_buffer' = <<>>
                   /\ pos' = pos + 1
                   /\ UNCHANGED <<pc, lines, conflicts, error, message>>
    /\ UNCHANGED <<input_kind, src, fs0>>
    /\ UNCHANGED flatten_vars

\* one turn of the loop on an EMPTY DIR marker
EmptyDir ==
    /\ pc = "process"
    /\ pos <= Len(lines)
    /\ parse_begin_file_line(rstrip(lines[pos]))[1] = None
    /\ LET empty_dir_path == parse_empty_dir_line(rstrip(lines[pos])) IN
       /\ empty_dir_path # None
       /\ LET flushed == flush(fs, current_file_handle, content_buffer, current_file_is_binary)
              made == handle_empty_dir(flushed.fs, empty_dir_path, NoPath)
              closed == close(open_handles, current_file_handle)
          IN  IF flushed.error # "none"
              THEN Raise(flushed.fs, flushed.warnings, open_handles)
              ELSE IF made.error # "none"
              THEN Raise(made.fs, flushed.warnings \o made.warnings, closed)
              ELSE /\ fs' = made.fs
                   /\ warnings' = warnings \o flushed.warnings \o made.warnings
                   /\ open_handles' = closed
                   /\ ResetFileState
                   /\ pos' = pos + 1
                   /\ UNCHANGED <<pc, lines, conflicts, error, message>>
    /\ UNCHANGED <<input_kind, src, fs0>>
    /\ UNCHANGED flatten_vars

\* one turn of the loop on an END FILE marker
EndFile ==
    /\ pc = "process"
    /\ pos <= Len(lines)
    /\ parse_begin_file_line(rstrip(lines[pos]))[1] = None
    /\ parse_empty_dir_line(rstrip(lines[pos])) = None
    /\ LET end == parse_end_file_line(rstrip(lines[pos])) IN
       /\ end[1] # None
       /\ LET flushed == flush(fs, current_file_handle, content_buffer, current_file_is_binary)
              ended == handle_end_file(end[1], end[2], current_file_handle,
                                       expected_end_path, current_file_is_binary)
          IN  IF flushed.error # "none"
              THEN Raise(flushed.fs, flushed.warnings, open_handles)
              ELSE /\ fs' = flushed.fs
                   /\ warnings' = warnings \o flushed.warnings \o ended
                   /\ open_handles' = close(open_handles, current_file_handle)
                   /\ ResetFileState
                   /\ pos' = pos + 1
                   /\ UNCHANGED <<pc, lines, conflicts, error, message>>
    /\ UNCHANGED <<input_kind, src, fs0>>
    /\ UNCHANGED flatten_vars

\* variant of ContentLine that buffers the line whether a file is open or
\* not; C26_StrayContent depends on the test of the handle
ContentLineAlwaysBuffered ==
    /\ pc = "process"
    /\ pos <= Len(lines)
    /\ parse_begin_file_line(rstrip(lines[pos]))[1] = None
    /\ parse_empty_dir_line(rstrip(lines[pos])) = None
    /\ parse_end_file_line(rstrip(lines[pos]))[1] = None
    /\ content_buffer' = Append(content_buffer, lines[pos])
    /\ pos' = pos + 1
    /\ UNCHANGED <<input_kind, src, fs, fs0, pc, lines, conflicts, current_file_handle,
                   current_file_path, current_file_is_binary, expected_end_path,
                   open_handles, warnings, error, message>>
    /\ UNCHANGED flatten_vars

\* one turn of the loop on a line that is no marker
ContentLine ==
    /\ pc = "process"
    /\ pos <= Len(lines)
    /\ parse_begin_file_line(rstrip(lines[pos]))[1] = None
    /\ parse_empty_dir_line(rstrip(lines[pos])) = None
    /\ parse_end_file_line(rstrip(lines[pos]))[1] = None
    /\ content_buffer' = IF current_file_handle # NoPath
                         THEN Append(content_buffer, lines[pos])
                         ELSE content_buffer
    /\ pos' = pos + 1
    /\ UNCHANGED <<input_kind, src, fs, fs0, pc, lines, conflicts, current_file_handle,
                   current_file_path, current_file_is_binary, expected_end_path,
                   open_handles, warnings, error, message>>
    /\ UNCHANGED flatten_vars

\* "End of file processing", then restore returns
EndOfInput ==
    /\ pc = "process"
    /\ pos > Len(lines)
    /\ LET flushed == flush(fs, current_file_handle, content_buffer, current_file_is_binary)
       IN  IF flushed.error # "none"
           THEN Raise(flushed.fs, flushed.warnings, open_handles)
           ELSE /\ fs' = flushed.fs
                /\ warnings' = warnings \o flushed.warnings
                               \o (IF current_file_handle # NoPath THEN <<"truncated">> ELSE <<>>)
                /\ open_handles' = close(open_handles, current_file_handle)
                /\ pc' = "done"
                /\ UNCHANGED <<lines, pos, conflicts, current_file_handle, current_file_path,
                               current_file_is_binary, expected_end_path, content_buffer,
                               error, message>>
    /\ UNCHANGED <<input_kind, src, fs0>>
    /\ UNCHANGED flatten_vars

Next ==
    \/ FlattenInvalid
    \/ RestoreInvalid
    \/ Flatten
    \/ ProcessEmptyDirectory
    \/ ProcessFile
    \/ FlattenReturn
    \/ RestoreCall
    \/ CheckConflicts
    \/ HandleConflicts
    \/ PerformRestoration
    \/ BeginFile
    \/ EmptyDir
    \/ EndFile
    \/ ContentLine
    \/ EndOfInput

Spec == Init /\ [][Next]_vars

(***************************************************************************)
(* restorer.py as a function of the file system and the input text         *)
(***************************************************************************)
\* the locals of _process_file_contents before the first line
LoopStart(filesystem) ==
    [fs |-> filesystem, handle |-> NoPath, is_binary |-> FALSE, buffer |-> <<>>,
     error |-> "none"]

\* one turn of _process_file_contents' loop; after an exception nothing more
\* is done
process_line(st, line) ==
    LET line_rstrip == rstrip(line)
        begin == parse_begin_file_line(line_rstrip)
        empty_dir_path == parse_empty_dir_line(line_rstrip)
        end == parse_end_file_line(line_rstrip)
        flushed == flush(st.fs, st.handle, st.buffer, st.is_binary)
        begun == handle_begin_file(flushed.fs, begin[1], NoPath)
        made == handle_empty_dir(flushed.fs, empty_dir_path, NoPath)
    IN  IF st.error # "none" THEN st
        ELSE IF begin[1] # None
        THEN IF flushed.error # "none"
             THEN [st EXCEPT !.fs = flushed.fs, !.error = "IOError"]
             ELSE IF begun.error # "none"
             THEN [st EXCEPT !.fs = begun.fs, !.error = "IOError"]
             ELSE [fs |-> begun.fs, handle |-> begun.handle, is_binary |-> begin[2],
                   buffer |-> <<>>, error |-> "none"]
        ELSE IF empty_dir_path # None
        THEN IF flushed.error # "none"
             THEN [st EXCEPT !.fs = flushed.fs, !.error = "IOError"]
             ELSE IF made.error # "none"
             THEN [st EXCEPT !.fs = made.fs, !.error = "IOError"]
             ELSE LoopStart(made.fs)
        ELSE IF end[1] # None
        THEN IF flushed.error # "none"
             THEN [st EXCEPT !.fs = flushed.fs, !.error = "IOError"]
             ELSE LoopStart(flushed.fs)
        ELSE [st EXCEPT !.buffer = IF st.handle # NoPath THEN Append(@, line) ELSE @]

\* _process_file_contents: the loop over the lines, then "End of file
\* processing"
RECURSIVE process_file_contents(_, _)
process_file_contents(st, input_lines) ==
    IF input_lines # <<>>
    THEN process_file_contents(process_line(st, Head(input_lines)), Tail(input_lines))
    ELSE IF st.error # "none" THEN st
    ELSE LET flushed == flush(st.fs, st.handle, st.buffer, st.is_binary) IN
         [st EXCEPT !.fs = flushed.fs,
                    !.error = IF flushed.error # "none" THEN "IOError" ELSE "none"]

\* _check_conflicts: the targets of the BEGIN FILE and EMPTY DIR markers that
\* exist
check_conflicts(filesystem, input_lines) ==
    LET target_path(line) ==
            LET begin_path == parse_begin_file_line(rstrip(line))[1] IN
            IF begin_path # None THEN joinpath(output_root, begin_path)
            ELSE IF parse_empty_dir_line(rstrip(line)) # None
            THEN joinpath(output_root, parse_empty_dir_line(rstrip(line)))
            ELSE NoPath
    IN  {t \in {target_path(input_lines[i]) : i \in DOMAIN input_lines} :
            t # NoPath /\ exists(filesystem, t)}

\* ScripRestorer.restore on a regular file that holds the text: the file
\* system it leaves and the exception it raises
restore(filesystem, text) ==
    LET found == check_conflicts(filesystem, readlines(text))
        made == mkdir(filesystem, <<>>, output_root)
        st == process_file_contents(LoopStart(made.fs), readlines(text))
    IN  IF found # {}
        THEN [fs |-> filesystem,
              error |-> IF \E t \in found : relative_to(t, output_root) = NoPath
                        THEN "ValueError" ELSE "FileExistsError"]
        ELSE IF made.error # "none" THEN [fs |-> made.fs, error |-> "FileExistsError"]
        ELSE [fs |-> st.fs, error |-> st.error]

(***************************************************************************)
(* core.py: restore_directory                                              *)
(***************************************************************************)
\* what restore_directory never changes
core_unused == <<input_kind, src, fs0, content_buffer, archive, prev_archive, run,
                 items, records>>

\* restore_directory is about to be called on a path that names a hand-made
\* archive, a directory or nothing
CoreInit ==
    /\ pc = "core_call"
    /\ src = EmptyTree
    /\ \/ input_kind = "file" /\ archive \in CraftedArchives
       \/ input_kind \in {"dir", "missing"} /\ archive = None
    /\ fs \in DestFileSystems
    /\ fs0 = fs
    /\ prev_archive = archive
    /\ run = 0
    /\ items = <<>>
    /\ records = <<>>
    /\ NoRestore

\* restore_directory on a path that is no regular file
CoreRestoreInvalid ==
    /\ pc = "core_call"
    /\ input_kind # "file"
    /\ pc' = "core_failed"
    /\ error' = "ValueError"
    /\ UNCHANGED <<fs, lines, pos, conflicts, current_file_handle, current_file_path,
                   current_file_is_binary, expected_end_path, open_handles, warnings,
                   message>>
    /\ UNCHANGED core_unused

\* restore_directory up to the loop of phase 1
CoreRestoreCall ==
    /\ pc = "core_call"
    /\ input_kind = "file"
    /\ pc' = "core_check"
    /\ lines' = readlines(archive)
    /\ pos' = 1
    /\ conflicts' = <<>>
    /\ UNCHANGED <<fs, current_file_handle, current_file_path, current_file_is_binary,
                   expected_end_path, open_handles, warnings, error, message>>
    /\ UNCHANGED core_unused

\* one turn of the loop of phase 1
CoreCheckConflicts ==
    /\ pc = "core_check"
    /\ pos <= Len(lines)
    /\ LET line_rstrip == rstrip(lines[pos])
           begin_path == parse_begin_file_line(line_rstrip)[1]
           path_str == IF begin_path # None THEN begin_path
                       ELSE parse_empty_dir_line(line_rstrip)
       IN  conflicts' = IF path_str # None /\ exists(fs, joinpath(output_root, path_str))
                        THEN Append(conflicts, joinpath(output_root, path_str))
                        ELSE conflicts
    /\ pos' = pos + 1
    /\ UNCHANGED <<fs, pc, lines, current_file_handle, current_file_path,
                   current_file_is_binary, expected_end_path, open_handles, warnings,
                   error, message>>
    /\ UNCHANGED core_unused

\* "if conflicts:": relative_to raises ValueError on a path that is not under
\* output_root, before the FileExistsError is built
CoreConflicts ==
    /\ pc = "core_check"
    /\ pos > Len(lines)
    /\ conflicts # <<>>
    /\ IF \E i \in DOMAIN conflicts : relative_to(conflicts[i], output_root) = NoPath
       THEN error' = "ValueError" /\ message' = <<>>
       ELSE /\ error' = "FileExistsError"
            /\ message' = [i \in DOMAIN conflicts |-> str(relative_to(conflicts[i], output_root))]
    /\ pc' = "core_failed"
    /\ UNCHANGED <<fs, lines, pos, conflicts, current_file_handle, current_file_path,
                   current_file_is_binary, expected_end_path, open_handles, warnings>>
    /\ UNCHANGED core_unused

\* phase 2 up to the loop: the root is made, the input reopened
CoreMakeRoot ==
    /\ pc = "core_check"
    /\ pos > Len(lines)
    /\ conflicts = <<>>
    /\ LET made == mkdir(fs, <<>>, output_root) IN
       /\ fs' = made.fs
       /\ IF made.error = "none"
          THEN pc' = "core_process" /\ error' = error
          ELSE pc' = "core_failed" /\ error' = "FileExistsError"
    /\ pos' = 1
    /\ UNCHANGED <<lines, conflicts, current_file_handle, current_file_path,
                   current_file_is_binary, expected_end_path, open_handles, warnings,
                   message>>
    /\ UNCHANGED core_unused

\* an exception leaves the loop of phase 2: IOError is raised from it
CoreRaise(filesystem, printed, still_open) ==
    /\ fs' = filesystem
    /\ warnings' = warnings \o printed
    /\ open_handles' = still_open
    /\ pc' = "core_failed"
    /\ error' = "IOError"
    /\ UNCHANGED <<lines, pos, conflicts, message>>

\* one turn of the loop of phase 2 on a BEGIN FILE marker
CoreBeginFile ==
    /\ pc = "core_process"
    /\ pos <= Len(lines)
    /\ LET begin == parse_begin_file_line(rstrip(lines[pos])) IN
       /\ begin[1] # None
       /\ LET target_path == joinpath(output_root, begin[1])
              warned == IF current_file_handle # NoPath
                        THEN <<"begin_before_end">> ELSE <<>>
              closed == close(open_handles, current_file_handle)
              made == mkdir(fs, <<>>, parent(target_path))
              opened == open(made.fs, target_path)
          IN  /\ current_file_is_binary' = begin[2]
              /\ current_file_path' = target_path
              /\ expected_end_path' = begin[1]
              /\ IF made.error # "none" \/ opened.error # "none"
                 THEN /\ CoreRaise(made.fs, warned, closed)
                      /\ UNCHANGED current_file_handle
                 ELSE /\ fs' = opened.fs
                      /\ warnings' = warnings \o warned
                      /\ open_handles' = closed \cup {opened.at}
                      /\ current_file_handle' = opened.at
                      /\ pos' = pos + 1
                      /\ UNCHANGED <<pc, lines, conflicts, error, message>>
    /\ UNCHANGED core_unused

\* one turn of the loop of phase 2 on an EMPTY DIR marker
CoreEmptyDir ==
    /\ pc = "core_process"
    /\ pos <= Len(lines)
    /\ parse_begin_file_line(rstrip(lines[pos]))[1] = None
    /\ LET empty_dir_path == parse_empty_dir_line(rstrip(lines[pos])) IN
       /\ empty_dir_path # None
       /\ LET warned == IF current_file_handle # NoPath
                        THEN <<"empty_dir_in_file">> ELSE <<>>
              closed == close(open_handles, current_file_handle)
              made == mkdir(fs, <<>>, joinpath(output_root, empty_dir_path))
          IN  /\ current_file_handle' = NoPath
              /\ current_file_is_binary' = FALSE
              /\ current_file_path' = NoPath
              /\ expected_end_path' = None
              /\ IF made.error # "none"
                 THEN CoreRaise(made.fs, warned, closed)
                 ELSE /\ fs' = made.fs
                      /\ warnings' = warnings \o warned
                      /\ open_handles' = closed
                      /\ pos' = pos + 1
                      /\ UNCHANGED <<pc, lines, conflicts, error, message>>
    /\ UNCHANGED core_unused

\* one turn of the loop of phase 2 on an END FILE marker
CoreEndFile ==
    /\ pc = "core_process"
    /\ pos <= Len(lines)
    /\ parse_begin_file_line(rstrip(lines[pos]))[1] = None
    /\ parse_empty_dir_line(rstrip(lines[pos])) = None
    /\ LET end == parse_end_file_line(rstrip(lines[pos])) IN
       /\ end[1] # None
       /\ warnings' = warnings \o
             (IF current_file_handle = NoPath THEN <<"end_without_file">>
              ELSE IF end[1] # expected_end_path \/ end[2] # current_file_is_binary
              THEN <<"end_mismatch">> ELSE <<>>)
    /\ open_handles' = close(open_handles, current_file_handle)
    /\ current_file_handle' = NoPath
    /\ current_file_is_binary' = FALSE
    /\ current_file_path' = NoPath
    /\ expected_end_path' = None
    /\ pos' = pos + 1
    /\ UNCHANGED <<fs, pc, lines, conflicts, error, message>>
    /\ UNCHANGED core_unused

\* one turn of the loop of phase 2 on a line that is no marker: the line is
\* written as it comes
CoreContentLine ==
    /\ pc = "core_process"
    /\ pos <= Len(lines)
    /\ parse_begin_file_line(rstrip(lines[pos]))[1] = None
    /\ parse_empty_dir_line(rstrip(lines[pos])) = None
    /\ parse_end_file_line(rstrip(lines[pos]))[1] = None
    /\ LET decoded == b64decode(rstrip(lines[pos])) IN
       IF current_file_handle = NoPath
       THEN /\ pos' = pos + 1
            /\ UNCHANGED <<fs, pc, lines, conflicts, open_handles, warnings, error, message>>
       ELSE IF ~current_file_is_binary
       THEN /\ fs' = write(fs, current_file_handle, encode_utf8(lines[pos]))
            /\ pos' = pos + 1
            /\ UNCHANGED <<pc, lines, conflicts, open_handles, warnings, error, message>>
       ELSE IF decoded.error = "none"
       THEN /\ fs' = write(fs, current_file_handle, decoded.bytes)
            /\ pos' = pos + 1
            /\ UNCHANGED <<pc, lines, conflicts, open_handles, warnings, error, message>>
       ELSE IF decoded.error = "binascii.Error"
       THEN /\ warnings' = Append(warnings, "decode")
            /\ pos' = pos + 1
            /\ UNCHANGED <<fs, pc, lines, conflicts, open_handles, error, message>>
       ELSE CoreRaise(fs, <<>>, close(open_handles, current_file_handle))
    /\ UNCHANGED <<current_file_handle, current_file_path, current_file_is_binary,
                   expected_end_path>>
    /\ UNCHANGED core_unused

\* "End of file processing", then restore_directory returns
CoreEndOfInput ==
    /\ pc = "core_process"
    /\ pos > Len(lines)
    /\ warnings' = warnings \o (IF current_file_handle # NoPath THEN <<"truncated">> ELSE <<>>)
    /\ open_handles' = close(open_handles, current_file_handle)
    /\ pc' = "core_done"
    /\ UNCHANGED <<fs, lines, pos, conflicts, current_file_handle, current_file_path,
                   current_file_is_binary, expected_end_path, error, message>>
    /\ UNCHANGED core_unused

CoreNext ==
    \/ CoreRestoreInvalid
    \/ CoreRestoreCall
    \/ CoreCheckConflicts
    \/ CoreConflicts
    \/ CoreMakeRoot
    \/ CoreBeginFile
    \/ CoreEmptyDir
    \/ CoreEndFile
    \/ CoreContentLine
    \/ CoreEndOfInput

CoreSpec == CoreInit /\ [][CoreNext]_vars

(***************************************************************************)
(* Properties                                                              *)
(***************************************************************************)
\* p is a prefix of q
IsPrefix(p, q) == Len(q) >= Len(p) /\ SubSeq(q, 1, Len(p)) = p

\* the tree below output_root: relative path -> entry
DestTree ==
    LET below == {q \in DOMAIN fs : Len(q) > Len(output_root) /\ IsPrefix(output_root, q)}
    IN  [r \in {SubSeq(q, Len(output_root) + 1, Len(q)) : q \in below} |-> fs[output_root \o r]]

\* restore has returned or raised, on the archive flatten wrote for src, with
\* a destination that was fresh
Restored == pc \in {"done", "failed"} /\ run >= 1 /\ fs0 \in FreshFileSystems

\* the files of the source tree
SourceFiles == {p \in DOMAIN src : src[p].kind = "file"}

\* the directories of the source tree
SourceDirs == {p \in DOMAIN src : src[p].kind = "dir"}

\* the bytes are plain text: no NUL, nothing the UTF-8 decoding drops
IsPlainText(data) == \A i \in DOMAIN data : data[i] # NUL /\ data[i] < 128

\* a line of the text has the shape of a BEGIN FILE, EMPTY DIR or END FILE marker
HasMarkerLine(data) ==
    \E i \in DOMAIN readlines(data) :
        LET line == rstrip(readlines(data)[i]) IN
        \/ parse_begin_file_line(line)[1] # None
        \/ parse_empty_dir_line(line) # None
        \/ parse_end_file_line(line)[1] # None

\* no file of the source tree holds a line of marker shape
NoMarkerLines == \A p \in SourceFiles : ~HasMarkerLine(src[p].data)

\* the directory has no direct child in the source tree
NoChild(dir_path) ==
    ~\E q \in DOMAIN src : Len(q) = Len(dir_path) + 1 /\ IsPrefix(dir_path, q)

\* a < b for strings, character by character
StrBefore(a, b) ==
    \E k \in 1..Len(b) :
        /\ \A m \in 1..(k - 1) : m <= Len(a) /\ a[m] = b[m]
        /\ k = Len(a) + 1 \/ (k <= Len(a) /\ a[k] < b[k])

\* p < q for paths, name by name
PartsBefore(p, q) ==
    \E k \in 1..Len(q) :
        /\ \A m \in 1..(k - 1) : m <= Len(p) /\ p[m] = q[m]
        /\ k = Len(p) + 1 \/ (k <= Len(p) /\ StrBefore(p[k], q[k]))

\* C1 (as claimed): after flatten and restore into a fresh destination, a
\* tree of readable plain text files (none with a line of marker shape) is restored
\* with the same files, contents, empty directories and nesting.
C1_TextRoundTrip ==
    (/\ Restored
     /\ NoMarkerLines
     /\ \A p \in DOMAIN src : src[p].kind # "unreadable"
     /\ \A p \in SourceFiles : IsPlainText(src[p].data))
        => (pc = "done" /\ DestTree = src)

\* C2 (as claimed): after flatten and restore into a fresh destination, every
\* file that holds a NUL byte, at whatever offset, was written as a binary
\* record and is restored byte for byte.
C2_BinaryRoundTripAnyOffset ==
    Restored =>
        \A p \in SourceFiles :
            contains(src[p].data, NUL) =>
                /\ \E i \in DOMAIN records : records[i].path = p /\ records[i].binary
                /\ p \in DOMAIN DestTree
                /\ DestTree[p] = src[p]

\* the file has a NUL byte in the chunk is_binary reads
NulInChunk(data) == \E i \in 1..ChunkSize : i <= Len(data) /\ data[i] = NUL

\* C2 (amended): in a tree whose text files hold no line of marker shape,
\* every file with a NUL byte among the bytes is_binary reads was written as a
\* binary record and is restored byte for byte.
C2_BinaryRoundTrip ==
    (Restored /\ NoMarkerLines) =>
        \A p \in SourceFiles :
            NulInChunk(src[p].data) =>
                /\ \E i \in DOMAIN records : records[i].path = p /\ records[i].binary
                /\ p \in DOMAIN DestTree
                /\ DestTree[p] = src[p]

\* C2 witness: a three-byte file with a NUL in the chunk has been restored
C2_Witness ==
    /\ Restored
    /\ pc = "done"
    /\ \E p \in SourceFiles :
          /\ NulInChunk(src[p].data)
          /\ Len(src[p].data) = 3
          /\ p \in DOMAIN DestTree
          /\ DestTree[p] = src[p]

\* the path strings the BEGIN FILE and EMPTY DIR markers of the archive name
NamedPaths ==
    LET named(line) ==
            IF parse_begin_file_line(rstrip(line))[1] # None
            THEN parse_begin_file_line(rstrip(line))[1]
            ELSE parse_empty_dir_line(rstrip(line))
    IN  {named(readlines(archive)[i]) : i \in DOMAIN readlines(archive)} \ {None}

\* the named paths that existed when restore was called
ExistingTargets ==
    {t \in {joinpath(output_root, path_str) : path_str \in NamedPaths} : exists(fs0, t)}

\* the conflict scan is over
Scanned == pc \in {"process", "done", "failed"}

\* C3 (as claimed): when a named path exists under the destination root,
\* restore raises the conflict error and the file system is as it was.
C3_ConflictGate ==
    (Scanned /\ \E t \in ExistingTargets : IsPrefix(output_root, walk(fs0, <<>>, t)))
        => (pc = "failed" /\ error = "FileExistsError" /\ fs = fs0)

\* C4 (as claimed): when a named path exists, restore raises FileExistsError
\* and lists exactly the named paths that exist, relative to the root.
C4_ConflictReport ==
    (Scanned /\ ExistingTargets # {})
        => /\ pc = "failed"
           /\ error = "FileExistsError"
           /\ {message[i] : i \in DOMAIN message}
                = {str(relative_to(t, output_root)) : t \in ExistingTargets}

\* C5 (as claimed): whatever restore creates or writes lies under the
\* destination root.
C5_PathSafety ==
    \A q \in DOMAIN fs :
        (q \notin DOMAIN fs0 \/ fs[q] # fs0[q]) => IsPrefix(output_root, q)

\* C6 (as claimed): the records are written in the order of the whole
\* relative path strings.
C6_StringOrder ==
    \A i, j \in DOMAIN records :
        i < j => StrBefore(str(records[i].path), str(records[j].path))

\* C6 (amended): the records are written in the order of the relative paths
\* compared name by name.
C6_PartsOrder ==
    \A i, j \in DOMAIN records :
        i < j => PartsBefore(records[i].path, records[j].path)

\* C6 witness: flatten has written two records whose path strings are in the
\* opposite order
C6_Witness ==
    /\ pc = "flattened"
    /\ \E i, j \in DOMAIN records :
          i < j /\ StrBefore(str(records[j].path), str(records[i].path))

\* C7: a second flatten run over the same tree writes the archive the run
\* before it wrote.
C7_Determinism == (pc = "flattened" /\ run >= 2) => archive = prev_archive

\* C7 witness: two runs are complete over a tree of several entries
C7_Witness ==
    pc = "flattened" /\ run = 2 /\ Len(records) >= 2 /\ archive = prev_archive

\* C8: flatten writes an EMPTY DIR record for a directory exactly when the
\* directory has no direct child, and writes it as that directory's marker line.
C8_EmptyDirRecord ==
    pc = "flattened" =>
        /\ \A p \in SourceDirs :
              (\E i \in DOMAIN records : records[i].kind = "dir" /\ records[i].path = p)
                  <=> NoChild(p)
        /\ \A i \in DOMAIN records :
              records[i].kind = "dir" =>
                  /\ records[i].path \in SourceDirs
                  /\ \E n \in DOMAIN readlines(archive) :
                        readlines(archive)[n] = EmptyDirLine(str(records[i].path))

\* C8 witness: flatten is done on a tree with a directory that has a child
\* and a directory that has none
C8_Witness ==
    /\ pc = "flattened"
    /\ \E p, q \in SourceDirs :
          /\ IsPrefix(p, q) /\ p # q /\ NoChild(q)
          /\ \E i \in DOMAIN records : records[i].kind = "dir" /\ records[i].path = q
          /\ ~\E i \in DOMAIN records : records[i].path = p

\* the source directories below which there are directories only
OnlyDirsBelow(dir_path) == \A q \in DOMAIN src : IsPrefix(dir_path, q) => q \in SourceDirs

\* the directory and what is below it are the same in the restored tree
SameBelow(dir_path) ==
    /\ {q \in DOMAIN DestTree : IsPrefix(dir_path, q)} = {q \in DOMAIN src : IsPrefix(dir_path, q)}
    /\ \A q \in DOMAIN DestTree : IsPrefix(dir_path, q) => DestTree[q] = Dir

\* every empty source directory is restored empty, every directory with only
\* empty directories below it is restored with the same directories
EmptyDirsRestored == \A p \in SourceDirs : OnlyDirsBelow(p) => SameBelow(p)

\* C9 (as claimed): after flatten and restore into a fresh destination the
\* empty directories, nested ones included, are there and empty.
C9_EmptyDirPreservedAlways == Restored => EmptyDirsRestored

\* C9 (amended): the same, for trees whose text files hold no line of marker
\* shape.
C9_EmptyDirPreserved == (Restored /\ NoMarkerLines) => EmptyDirsRestored

\* C9 witness: the empty directory a/b, whose parent holds nothing else, has
\* been restored
C9_Witness ==
    /\ Restored
    /\ pc = "done"
    /\ <<N_a, N_b>> \in SourceDirs
    /\ {q \in DOMAIN src : IsPrefix(<<N_a>>, q)} = {<<N_a>>, <<N_a, N_b>>}
    /\ <<N_a, N_b>> \in DOMAIN DestTree

\* C10 (as claimed): when the input ends while a file is open, the buffered
\* lines are decoded and written, the file is closed, the truncation warning
\* is printed and restore returns without an error.
C10_TruncatedArchive ==
    (pc \in {"done", "failed"} /\ pos > Len(lines) /\ current_file_handle # NoPath)
        => /\ pc = "done"
           /\ error = "none"
           /\ \E i \in DOMAIN warnings : warnings[i] = "truncated"
           /\ open_handles = {}
           /\ ~current_file_is_binary =>
                 fs[current_file_handle].data
                    = encode_utf8(strip_added_newline(join(content_buffer)))

\* the line is no marker
IsContentLine(line) ==
    /\ parse_begin_file_line(rstrip(line))[1] = None
    /\ parse_empty_dir_line(rstrip(line)) = None
    /\ parse_end_file_line(rstrip(line))[1] = None

\* the string is base64 as b64encode writes it: whole quads of alphabet
\* characters, with padding only at the end
ValidBase64(s) ==
    /\ Len(s) % 4 = 0
    /\ \A i \in DOMAIN s :
          \/ \E n \in 0..63 : s[i] = b64char(n)
          \/ s[i] = PAD /\ i >= Len(s) - 1 /\ \A j \in i..Len(s) : s[j] = PAD

\* restore was called, with a fresh destination, on an archive of one binary
\* record whose only content line is not valid base64
OneBadBinaryRecord ==
    /\ run = 0
    /\ fs0 \in FreshFileSystems
    /\ Len(lines) = 3
    /\ parse_begin_file_line(rstrip(lines[1]))[1] # None
    /\ parse_begin_file_line(rstrip(lines[1]))[2]
    /\ IsContentLine(lines[2])
    /\ ~ValidBase64(rstrip(lines[2]))
    /\ parse_end_file_line(rstrip(lines[3]))[1] # None

\* C11 (as claimed): restore of a binary record whose content line is not
\* valid base64 returns without raising, prints the decode warning and leaves
\* the record's file without content.
C11_MalformedBinary ==
    (pc \in {"done", "failed"} /\ OneBadBinaryRecord)
        => /\ pc = "done"
           /\ error = "none"
           /\ \E i \in DOMAIN warnings : warnings[i] = "decode"
           /\ LET target_path == joinpath(output_root, parse_begin_file_line(rstrip(lines[1]))[1])
              IN  target_path \in DOMAIN fs /\ fs[target_path] = File(<<>>)

\* C12: flatten on a path that is no directory raises ValueError and leaves
\* the output file as it was, missing or not; restore on a path that is no
\* regular file raises ValueError and leaves the file system as it was; neither
\* goes any further.
C12_InvalidInput ==
    /\ pc = "flatten_failed" =>
          error = "ValueError" /\ archive = prev_archive /\ fs = fs0
    /\ (run = 0 /\ input_kind # "dir") => pc \notin {"flatten", "flattened"}
    /\ (run = 0 /\ pc = "failed" /\ input_kind # "file") =>
          error = "ValueError" /\ fs = fs0 /\ archive = prev_archive
    /\ (run = 0 /\ input_kind # "file") => pc \notin {"check", "process", "done"}

\* C12 witness: flatten has raised on a path that is no directory while the
\* output file of an earlier use is there
C12_Witness ==
    pc = "flatten_failed" /\ input_kind \in {"file", "missing"} /\ archive = <<111, LF>>

\* the segment is in the text, contiguous
HasSegment(text, segment) ==
    \E k \in 0..(Len(text) - Len(segment)) :
        SubSeq(text, k + 1, k + Len(segment)) = segment

\* the last byte of the file is a newline
EndsWithNewline(data) == data # <<>> /\ data[Len(data)] = LF

\* the content region the newline rule asks for
ContentRegion(data) ==
    decode_ignore(data) \o (IF EndsWithNewline(data) THEN <<>> ELSE <<LF>>)

\* the text records flatten wrote
TextRecords == {i \in DOMAIN records : records[i].kind = "file" /\ ~records[i].binary}

\* C13: for every text file, the archive holds its BEGIN marker, then the
\* decoded content with one newline added exactly when the last byte is no
\* newline, then its END marker, which so starts a line.
C13_NewlineRule ==
    pc = "flattened" =>
        \A i \in TextRecords :
            LET data == src[records[i].path].data
                path_str == str(records[i].path)
            IN  /\ HasSegment(archive, BeginLine(path_str, <<>>) \o ContentRegion(data)
                                       \o EndLine(path_str, <<>>))
                /\ ContentRegion(data)[Len(ContentRegion(data))] = LF

\* C13 witness: flatten has written a text file that ends with a newline, one
\* that does not and an empty one
C13_Witness ==
    /\ pc = "flattened"
    /\ \E i, j \in TextRecords :
          /\ EndsWithNewline(src[records[i].path].data)
          /\ ~EndsWithNewline(src[records[j].path].data)
    /\ \E i \in TextRecords : src[records[i].path].data = <<>>

\* the text the decode rule asks for
DecodedText(text) ==
    IF Len(text) >= 2 /\ text[Len(text)] = LF /\ text[Len(text) - 1] = LF THEN text
    ELSE IF Len(text) >= 1 /\ text[Len(text)] = LF THEN SubSeq(text, 1, Len(text) - 1)
    ELSE text

\* a text file is open in restore's loop
TextFileOpen == pc = "process" /\ current_file_handle # NoPath /\ ~current_file_is_binary

\* C14: when restore is done with a text file, the file holds the buffered
\* lines joined, without their final newline when there is exactly one, and
\* unchanged otherwise; nothing is written while the lines are buffered.
C14_TextDecodeRule ==
    [][/\ (TextFileOpen /\ (current_file_handle' # current_file_handle \/ pc' = "done"))
            => fs'[current_file_handle].data = encode_utf8(DecodedText(join(content_buffer)))
       /\ (TextFileOpen /\ pos <= Len(lines) /\ IsContentLine(lines[pos]))
            => fs' = fs]_vars

\* C14 witness: the input ended in a text file whose last line has no line end
C14_Witness ==
    /\ pc = "done"
    /\ current_file_handle # NoPath
    /\ ~current_file_is_binary
    /\ content_buffer # <<>>
    /\ join(content_buffer)[Len(join(content_buffer))] # LF
    /\ fs[current_file_handle].data = encode_utf8(join(content_buffer))

\* restore_directory of core.py was called, with a fresh destination, on an
\* archive of one text record whose content lines end with one newline
CoreOneTextRecord ==
    /\ fs0 \in FreshFileSystems
    /\ Len(lines) >= 3
    /\ parse_begin_file_line(rstrip(lines[1]))[1] # None
    /\ ~parse_begin_file_line(rstrip(lines[1]))[2]
    /\ \A i \in 2..(Len(lines) - 1) : IsContentLine(lines[i])
    /\ parse_end_file_line(rstrip(lines[Len(lines)]))[1] # None
    /\ LET text == join(SubSeq(lines, 2, Len(lines) - 1)) IN
       /\ Len(text) >= 2
       /\ text[Len(text)] = LF
       /\ text[Len(text) - 1] # LF

\* C15 (as claimed): restore_directory of core.py restores a text record
\* whose content lines are s and one newline as a file that holds s.
C15_CoreRestoreText ==
    (pc \in {"core_done", "core_failed"} /\ CoreOneTextRecord)
        => /\ pc = "core_done"
           /\ LET target_path == joinpath(output_root, parse_begin_file_line(rstrip(lines[1]))[1])
                  text == join(SubSeq(lines, 2, Len(lines) - 1))
              IN  /\ target_path \in DOMAIN fs
                  /\ fs[target_path] = File(encode_utf8(SubSeq(text, 1, Len(text) - 1)))

\* the path strings a/file.txt and a/empty
S_a_file_txt == <<97, SLASH>> \o N_file_txt
S_a_empty == <<97, SLASH>> \o N_empty

\* the record of a/file.txt and the record of a/empty
FileRecordText == BeginLine(S_a_file_txt, <<>>) \o <<104, 105, LF>> \o EndLine(S_a_file_txt, <<>>)
EmptyRecordText == EmptyDirLine(S_a_empty)

\* C16 (as claimed): flatten of the tree of a/file.txt ('hi') and the empty
\* directory a/empty writes the file record, then the empty-directory record.
C16_ScenarioFileFirst ==
    (pc = "flattened" /\ src = ScenarioTree) => archive = FileRecordText \o EmptyRecordText

\* C16 (amended): it writes the empty-directory record, then the file record.
C16_ScenarioArchive ==
    (pc = "flattened" /\ src = ScenarioTree) => archive = EmptyRecordText \o FileRecordText

\* C16 witness: flatten of that tree is done
C16_Witness == pc = "flattened" /\ src = ScenarioTree /\ Len(records) = 2

\* the diagnostic line written in place of the content of a file that cannot
\* be read
DiagnosticLine == READ_ERROR_PREFIX \o ReadErrorMessage \o <<LF>>

\* the entries of the source tree that flatten writes a record for
Recorded == {p \in DOMAIN src : src[p].kind # "dir" \/ NoChild(p)}

\* C17: flatten of a directory does not raise; for a file that cannot be
\* read the archive holds its BEGIN marker, one diagnostic line and its END
\* marker, and every entry that has a record is written.
C17_ReadFailure ==
    /\ input_kind = "dir" => pc # "flatten_failed"
    /\ pc = "flattened" =>
          /\ \A i \in DOMAIN records :
                records[i].kind = "unreadable" =>
                    HasSegment(archive, BeginLine(str(records[i].path), <<>>)
                                        \o DiagnosticLine
                                        \o EndLine(str(records[i].path), <<>>))
          /\ {records[i].path : i \in DOMAIN records} = Recorded
          /\ Len(records) = Cardinality(Recorded)
          /\ \A i \in DOMAIN records :
                LET path_str == str(records[i].path)
                    marker == IF records[i].binary THEN BINARY_MARKER ELSE <<>>
                IN  IF records[i].kind = "dir"
                    THEN HasSegment(archive, EmptyDirLine(path_str))
                    ELSE /\ HasSegment(archive, BeginLine(path_str, marker))
                         /\ HasSegment(archive, EndLine(path_str, marker))

\* C17 witness: flatten is done on a tree where a file that cannot be read
\* comes before another entry
C17_Witness ==
    /\ pc = "flattened"
    /\ \E i, j \in DOMAIN records : i < j /\ records[i].kind = "unreadable"

\* C18: a step of restore's second pass that fails raises IOError and leaves
\* every entry of the file system there, the files that were closed with
\* their content; nothing happens after restore has failed.
C18_WriteFailure ==
    [][/\ pc # "failed"
       /\ (pc = "process" /\ pc' = "failed") =>
             /\ error' = "IOError"
             /\ \A q \in DOMAIN fs :
                   /\ q \in DOMAIN fs'
                   /\ fs'[q].kind = fs[q].kind
                   /\ q # current_file_handle => fs'[q] = fs[q]]_vars

\* C18 witness: restore has failed in its second pass after it made something,
\* and a later BEGIN FILE marker names a file that is not there
C18_Witness ==
    /\ pc = "failed"
    /\ error = "IOError"
    /\ DOMAIN fs # DOMAIN fs0
    /\ \E i \in (pos + 1)..Len(lines) :
          /\ parse_begin_file_line(rstrip(lines[i]))[1] # None
          /\ joinpath(output_root, parse_begin_file_line(rstrip(lines[i]))[1]) \notin DOMAIN fs

\* C19 (as claimed): when restore returns or raises, no target file is open.
C19_ResourceRelease == pc \in {"done", "failed"} => open_handles = {}

\* C20: at most one target file is open at any time.
C20_SingleOpenFile == Cardinality(open_handles) <= 1

\* C20 witness: a file is open while another file, opened before it, is there
\* and closed
C20_Witness ==
    /\ pc = "process"
    /\ Cardinality(open_handles) = 1
    /\ \E q \in DOMAIN fs \ DOMAIN fs0 : fs[q].kind = "file" /\ q \notin open_handles

\* the conflict scan has read every line of the input file
ScanComplete == pc = "check" /\ pos > Len(lines)

\* the path string a BEGIN FILE or EMPTY DIR marker line names, None for any
\* other line
Named(line) ==
    IF parse_begin_file_line(rstrip(line))[1] # None
    THEN parse_begin_file_line(rstrip(line))[1]
    ELSE parse_empty_dir_line(rstrip(line))

\* the lines of the input file that are BEGIN FILE or EMPTY DIR markers
MarkerLines == {i \in DOMAIN lines : Named(lines[i]) # None}

\* C21: every turn of the conflict scan takes the next line and makes the
\* existence check of the path it names on the file system as restore found
\* it; the second pass starts, and the file system changes (the creation of
\* the destination root included), only once the scan has taken every line.
C21_PassOrdering ==
    [][/\ fs' # fs => (pc = "process" \/ ScanComplete)
       /\ (pc # "process" /\ pc' = "process") => (ScanComplete /\ fs = fs0)
       /\ (pc = "check" /\ ~ScanComplete) =>
             /\ pc' = "check"
             /\ pos' = pos + 1
             /\ fs = fs0
             /\ LET target_path == joinpath(output_root, Named(lines[pos])) IN
                conflicts' = IF Named(lines[pos]) # None /\ exists(fs0, target_path)
                             THEN Append(conflicts, target_path)
                             ELSE conflicts]_vars

\* C21 witness: the second pass has made something for an archive of several
\* markers, in a destination whose root was missing
C21_Witness ==
    /\ pc = "process"
    /\ pos > 1
    /\ Cardinality(MarkerLines) >= 2
    /\ output_root \notin DOMAIN fs0
    /\ DOMAIN fs # DOMAIN fs0

\* the warnings about a marker met before the END marker of the open file
MissingEndWarnings == {"begin_before_end", "empty_dir_in_file"}

\* C22 (as claimed): a turn of the second pass on a BEGIN FILE or EMPTY DIR
\* marker, taken while a target file is open, prints a warning about the
\* missing END marker.
C22_MissingEndReported ==
    [][(/\ pc = "process"
        /\ pos <= Len(lines)
        /\ current_file_handle # NoPath
        /\ Named(lines[pos]) # None)
           => \E i \in (Len(warnings) + 1)..Len(warnings') :
                 warnings'[i] \in MissingEndWarnings]_vars

\* the bytes the buffered lines of the open file stand for: the joined lines
\* under the text rule, or the decoded base64 line, nothing when it is malformed
BufferedBytes ==
    IF current_file_is_binary
    THEN IF content_buffer # <<>> /\ ValidBase64(rstrip(content_buffer[1]))
         THEN b64decode(rstrip(content_buffer[1])).bytes
         ELSE <<>>
    ELSE encode_utf8(DecodedText(join(content_buffer)))

\* the second pass is about to take a BEGIN FILE or EMPTY DIR marker while a
\* target file is open
MarkerInOpenFile ==
    /\ pc = "process"
    /\ pos <= Len(lines)
    /\ current_file_handle # NoPath
    /\ Named(lines[pos]) # None

\* C23 (as claimed): a turn of the second pass on a BEGIN FILE or EMPTY DIR
\* marker, taken while a file is open, leaves the open file closed and holding
\* its buffered lines, decoded, whatever becomes of the new target; the next
\* file starts empty, with an empty buffer.
C23_FlushOnMissingEnd ==
    [][MarkerInOpenFile =>
          /\ \/ current_file_handle \notin open_handles'
             \/ pc' = "process" /\ current_file_handle' = current_file_handle
          /\ (pc' = "failed" \/ current_file_handle' # current_file_handle)
                => fs'[current_file_handle].data = BufferedBytes
          /\ pc' = "process" =>
                /\ content_buffer' = <<>>
                /\ current_file_handle' # NoPath
                      => fs'[current_file_handle'].data = <<>>]_vars

\* the second pass is about to take an END FILE marker, while a target file is
\* open, whose path or binary flag is not that of the file's BEGIN marker
MismatchedEnd ==
    /\ pc = "process"
    /\ pos <= Len(lines)
    /\ current_file_handle # NoPath
    /\ Named(lines[pos]) = None
    /\ LET end == parse_end_file_line(rstrip(lines[pos])) IN
       /\ end[1] # None
       /\ end[1] # expected_end_path \/ end[2] # current_file_is_binary

\* C24 (as claimed): a turn of the second pass on an END FILE marker that
\* does not match the open file's BEGIN marker prints the mismatch warning,
\* leaves the file named by the BEGIN marker closed and holding its buffered
\* lines, decoded under the BEGIN marker's flag, and goes on to the next line.
C24_EndMismatch ==
    [][MismatchedEnd =>
          /\ pc' = "process"
          /\ pos' = pos + 1
          /\ error' = "none"
          /\ Len(warnings') > Len(warnings)
          /\ warnings'[Len(warnings')] = "end_mismatch"
          /\ DOMAIN fs' = DOMAIN fs
          /\ fs'[current_file_handle].data = BufferedBytes
          /\ current_file_handle \notin open_handles'
          /\ current_file_handle' = NoPath
          /\ content_buffer' = <<>>]_vars

\* the second pass is about to take an END FILE marker while no file is open
StrayEnd ==
    /\ pc = "process"
    /\ pos <= Len(lines)
    /\ current_file_handle = NoPath
    /\ Named(lines[pos]) = None
    /\ parse_end_file_line(rstrip(lines[pos]))[1] # None

\* C25: a turn of the second pass on an END FILE marker, taken while no file
\* is open, prints one warning and goes on to the next line; the file system,
\* the open files and the state of the loop (no file, an empty buffer) are
\* what they were.
C25_StrayEnd ==
    [][StrayEnd =>
          /\ warnings' = Append(warnings, "end_without_file")
          /\ fs' = fs
          /\ open_handles' = open_handles
          /\ content_buffer = <<>>
          /\ UNCHANGED <<current_file_handle, current_file_path, current_file_is_binary,
                         expected_end_path, content_buffer, error>>
          /\ pc' = "process"
          /\ pos' = pos + 1]_vars

\* C25 witness: restore is done with an archive where an END FILE marker came
\* after the file before it was closed
C25_Witness ==
    /\ pc = "done"
    /\ \E i \in DOMAIN warnings : warnings[i] = "end_without_file"
    /\ \E q \in DOMAIN fs \ DOMAIN fs0 : fs[q].kind = "file"

\* the second pass is about to take a content line while no file is open
StrayContent ==
    /\ pc = "process"
    /\ pos <= Len(lines)
    /\ current_file_handle = NoPath
    /\ IsContentLine(lines[pos])

\* the line i of the input file is a content line that no BEGIN FILE marker
\* opens a file for: the line before it, if any, is an END FILE or EMPTY DIR
\* marker or such a content line itself
RECURSIVE IsStray(_)
IsStray(i) ==
    /\ IsContentLine(lines[i])
    /\ \/ i = 1
       \/ IsStray(i - 1)
       \/ /\ ~IsContentLine(lines[i - 1])
          /\ parse_begin_file_line(rstrip(lines[i - 1]))[1] = None

\* C26: a turn of the second pass on a content line, taken while no file is
\* open, goes on to the next line and changes nothing else: the file system,
\* the warnings and the state of the loop (no file, an empty buffer) are what
\* they were; and when every content line of the archive is such a line,
\* every file restore has made is empty.
C26_StrayContent ==
    /\ [][StrayContent =>
             /\ pos' = pos + 1
             /\ content_buffer = <<>>
             /\ UNCHANGED <<fs, open_handles, warnings, current_file_handle,
                            current_file_path, current_file_is_binary, expected_end_path,
                            content_buffer, error, pc>>]_vars
    /\ []((/\ pc \in {"process", "done"}
           /\ run = 0
           /\ \A i \in DOMAIN lines : IsContentLine(lines[i]) => IsStray(i))
             => \A q \in DOMAIN fs \ DOMAIN fs0 : fs[q].data = <<>>)

\* C26 witness: restore is done with an archive whose first line is a content
\* line and whose second line opens a file, which is empty
C26_Witness ==
    /\ pc = "done"
    /\ run = 0
    /\ Len(lines) = 3
    /\ IsContentLine(lines[1])
    /\ parse_begin_file_line(rstrip(lines[2]))[1] # None
    /\ \E q \in DOMAIN fs \ DOMAIN fs0 : fs[q] = File(<<>>)

\* the line, without its line end, starts with the prefix and ends with the
\* suffix
HasShape(line, prefix, suffix) ==
    startswith(rstrip(line), prefix) /\ endswith(rstrip(line), suffix)

\* the line has the shape of a BEGIN FILE, of an EMPTY DIR, of an END FILE marker
BeginShape(line) == HasShape(line, BEGIN_FILE_PREFIX, BEGIN_FILE_SUFFIX)
EmptyDirShape(line) == HasShape(line, EMPTY_DIR_PREFIX, EMPTY_DIR_SUFFIX)
EndShape(line) == HasShape(line, END_FILE_PREFIX, END_FILE_SUFFIX)

\* the line has the shape of a marker
MarkerShape(line) == BeginShape(line) \/ EmptyDirShape(line) \/ EndShape(line)

\* the lines of the text before its first line of marker shape
LinesBeforeMarker(text) ==
    LET ls == readlines(text)
        first == CHOOSE k \in DOMAIN ls :
                    MarkerShape(ls[k]) /\ \A j \in 1..(k - 1) : ~MarkerShape(ls[j])
    IN  SubSeq(ls, 1, first - 1)

\* the text files of the source tree that hold a line of marker shape
EscapingFiles ==
    {p \in SourceFiles :
        /\ ~is_binary(src[p].data)
        /\ \E k \in DOMAIN readlines(decode_ignore(src[p].data)) :
              MarkerShape(readlines(decode_ignore(src[p].data))[k])}

\* C27: in the conflict scan a line of BEGIN FILE or EMPTY DIR shape gets its
\* existence check, and in the second pass a line of marker shape is taken as
\* that marker, whether a file is open or not; met in an open text file, it is
\* not buffered and the file is left with the lines buffered before it.  So
\* after flatten and restore, a text file with a line of marker shape, where
\* it was restored as a file, holds the lines before that line only.
C27_NoEscaping ==
    /\ [][/\ (pc = "check" /\ pos <= Len(lines)) =>
                (Len(conflicts') = Len(conflicts) + 1
                    <=> /\ BeginShape(lines[pos]) \/ EmptyDirShape(lines[pos])
                        /\ exists(fs, joinpath(output_root, Named(lines[pos]))))
          /\ (pc = "process" /\ pos <= Len(lines) /\ pc' = "process") =>
                IF MarkerShape(lines[pos])
                THEN /\ content_buffer' = <<>>
                     /\ current_file_handle' # NoPath <=> BeginShape(lines[pos])
                     /\ current_file_handle' # NoPath
                           => fs'[current_file_handle'].data = <<>>
                ELSE /\ fs' = fs
                     /\ current_file_handle' = current_file_handle
          /\ (/\ TextFileOpen /\ pos <= Len(lines) /\ MarkerShape(lines[pos])
              /\ pc' = "failed" \/ current_file_handle' # current_file_handle)
                => fs'[current_file_handle].data
                      = encode_utf8(DecodedText(join(content_buffer)))]_vars
    /\ [](Restored =>
            \A p \in EscapingFiles :
                (p \in DOMAIN DestTree /\ DestTree[p].kind = "file")
                    => DestTree[p].data
                          = encode_utf8(DecodedText(join(LinesBeforeMarker(
                                decode_ignore(src[p].data))))))

\* C27 witness: after flatten and restore, a text file of two lines, the
\* second of marker shape, holds its first line, without the line end
C27_Witness ==
    /\ Restored
    /\ \E p \in EscapingFiles :
          /\ Len(readlines(decode_ignore(src[p].data))) = 2
          /\ p \in DOMAIN DestTree
          /\ DestTree[p] = File(<<97>>)

\* the lines are one complete record: an EMPTY DIR marker, or a BEGIN FILE
\* marker, content lines and the END FILE marker of the same path and flag
IsCompleteRecord(segment) ==
    \/ /\ Len(segment) = 1
       /\ ~BeginShape(segment[1])
       /\ EmptyDirShape(segment[1])
    \/ /\ Len(segment) >= 2
       /\ BeginShape(segment[1])
       /\ \A i \in 2..(Len(segment) - 1) : IsContentLine(segment[i])
       /\ Named(segment[Len(segment)]) = None
       /\ parse_end_file_line(rstrip(segment[Len(segment)]))
             = parse_begin_file_line(rstrip(segment[1]))

\* the lines cut into complete records, an empty record standing for lines
\* that begin with no complete record
RECURSIVE RecordsOf(_)
RecordsOf(input_lines) ==
    IF input_lines = <<>> THEN <<>>
    ELSE LET ends == {k \in 1..Len(input_lines) :
                        IsCompleteRecord(SubSeq(input_lines, 1, k))}
             k == CHOOSE k \in ends : TRUE
         IN  IF ends = {} THEN << <<>> >>
             ELSE <<SubSeq(input_lines, 1, k)>>
                  \o RecordsOf(SubSeq(input_lines, k + 1, Len(input_lines)))

\* the archive is made of complete records, each line with its line end
MadeOfCompleteRecords ==
    /\ \A i \in DOMAIN lines : endswith(lines[i], <<LF>>)
    /\ \A i \in DOMAIN RecordsOf(lines) : RecordsOf(lines)[i] # <<>>

\* the orders of n records
Orders(n) == {f \in [1..n -> 1..n] : \A i, j \in 1..n : i # j => f[i] # f[j]}

\* the text of the archive with its records in the order f
Reordered(f) == join([i \in DOMAIN RecordsOf(lines) |-> join(RecordsOf(lines)[f[i]])])

\* restore of the records in any order, into the destination as it was,
\* leaves the file system restore has left and raises what it has raised
OrderIndependent ==
    \A f \in Orders(Len(RecordsOf(lines))) :
        restore(fs0, Reordered(f)) = [fs |-> fs, error |-> error]

\* C28 (as claimed): for every archive made of complete records, restore of
\* any permutation of the records into a fresh destination gives the tree and
\* the outcome that restore of the archive gives.
C28_OrderIndependence ==
    (/\ pc \in {"done", "failed"}
     /\ run >= 1 \/ input_kind = "file"
     /\ fs0 \in FreshFileSystems
     /\ MadeOfCompleteRecords)
        => OrderIndependent

\* C28 (amended): the same for every archive flatten wrote for a tree whose
\* text files hold no line of marker shape: it is made of complete records,
\* and any permutation of them is restored as the archive is.
C28_FlattenedOrderIndependence ==
    (Restored /\ NoMarkerLines) => (MadeOfCompleteRecords /\ OrderIndependent)

\* C28 witness: an archive flatten wrote, of two records, one of them for a
\* file in a directory, has been restored
C28_Witness ==
    /\ Restored
    /\ NoMarkerLines
    /\ pc = "done"
    /\ Len(RecordsOf(lines)) = 2
    /\ \E p \in DOMAIN DestTree : Len(p) = 2 /\ DestTree[p].kind = "file"

\* restore was called on an input file
RestoreOnFile == run >= 1 \/ input_kind = "file"

\* restore of an archive that names no path, into a destination that was
\* not there, has made the root, an empty directory, and nothing else, and
\* has returned
EmptyArchiveRestored ==
    (/\ pc \in {"done", "failed"}
     /\ RestoreOnFile
     /\ NamedPaths = {}
     /\ output_root \notin DOMAIN fs0)
        => /\ pc = "done"
           /\ error = "none"
           /\ fs = (output_root :> Dir) @@ fs0

\* restore has gone on to its second pass, which the file system enters as
\* restore found it
Proceeds ==
    /\ error \in {"none", "IOError"}
    /\ (pc = "process" /\ pos = 1) => fs = fs0

\* C29 (as claimed): restore of an archive without records into a missing
\* destination makes the root, empty, and returns; when the destination root
\* exists and no named path does, making the root changes nothing and restore
\* goes on to its second pass.
C29_EmptyArchiveAnyRoot ==
    /\ EmptyArchiveRestored
    /\ (Scanned /\ RestoreOnFile /\ output_root \in DOMAIN fs0 /\ ExistingTargets = {})
          => Proceeds

\* C29 (amended): the same when the destination root exists as a directory;
\* when the destination path names a regular file, restore raises
\* FileExistsError and leaves the file system as it was.
C29_EmptyArchiveDirRoot ==
    /\ EmptyArchiveRestored
    /\ (/\ Scanned /\ RestoreOnFile /\ ExistingTargets = {}
        /\ output_root \in DOMAIN fs0 /\ fs0[output_root].kind = "dir")
          => Proceeds
    /\ (/\ Scanned /\ RestoreOnFile /\ ExistingTargets = {}
        /\ output_root \in DOMAIN fs0 /\ fs0[output_root].kind = "file")
          => (pc = "failed" /\ error = "FileExistsError" /\ fs = fs0)

\* C29 witness: restore of an archive without records has made the root that
\* was missing
C29_Witness ==
    /\ pc = "done"
    /\ RestoreOnFile
    /\ NamedPaths = {}
    /\ output_root \notin DOMAIN fs0
    /\ fs = (output_root :> Dir) @@ fs0

\* C30: flatten of a source directory without entries leaves an empty output
\* file, whatever the output file held before; and for no tree does flatten
\* write a record, or an EMPTY DIR marker, for the source root itself.
C30_EmptySource ==
    pc = "flattened" =>
        /\ src = EmptyTree => (archive = <<>> /\ records = <<>>)
        /\ \A i \in DOMAIN records : records[i].path # <<>>
        /\ ~HasSegment(archive, EmptyDirLine(str(<<>>)))

\* C30 witness: flatten of the tree without entries is done, over an output
\* file that held something
C30_Witness ==
    /\ pc = "flattened"
    /\ src = EmptyTree
    /\ input_kind = "dir"
    /\ run = 1
    /\ prev_archive = <<111, LF>>
    /\ archive = <<>>

(***************************************************************************)
(* C31: files under the destination are never overwritten                  *)
(***************************************************************************)
\* the regular files that were under the destination root when restore was
\* called
FilesBefore == {p \in DOMAIN fs0 : fs0[p].kind = "file" /\ IsPrefix(output_root, p)}

\* restore returned or raised
RestoreEnded == pc \in {"done", "failed"} /\ RestoreOnFile

\* C31 (as claimed): every file that existed under the destination before
\* restore is still there with the same content when restore returns or
\* raises.
C31_NoOverwrite ==
    RestoreEnded => \A p \in FilesBefore : p \in DOMAIN fs /\ fs[p] = fs0[p]

(***************************************************************************)
(* C32: the conflict scan and the failures of the second pass              *)
(***************************************************************************)
\* the file system without the entries below the destination root
Cleared(filesystem) ==
    [p \in {q \in DOMAIN filesystem : ~(IsPrefix(output_root, q) /\ q # output_root)}
        |-> filesystem[p]]

\* the first pass found no conflict and the second pass raised
SecondPassFailed ==
    /\ RestoreEnded
    /\ archive # None
    /\ check_conflicts(fs0, readlines(archive)) = {}
    /\ pc = "failed"
    /\ error = "IOError"

\* C32 (as claimed): when the first pass finds no conflict, the second pass
\* does not fail because of an entry that was under the destination before:
\* if it fails, it fails as well on the destination without those entries.
C32_ScanSufficient ==
    SecondPassFailed => restore(Cleared(fs0), archive).error = "IOError"

(***************************************************************************)
(* parser.py on its own: the three parse functions applied to one line,    *)
(* which is either any line of a bounded set or a marker line that         *)
(* _process_file wrote                                                     *)
(***************************************************************************)
\* the characters the path parts of the input lines are made of: a, space
\* and dash
PathChars == {97, 32, 45}

\* the strings between the prefix and the suffix of the input lines
PathParts == UNION {[1..k -> PathChars] : k \in 0..MaxLen}

\* the input lines: a prefix, a path part, the binary marker or nothing, and
\* the suffix; a prefix and the suffix sharing the space between them; lines
\* that start or end like no marker
ParserLines ==
    LET prefixes == {BEGIN_FILE_PREFIX, END_FILE_PREFIX, EMPTY_DIR_PREFIX}
    IN  {prefix \o part \o marker \o BEGIN_FILE_SUFFIX :
            prefix \in prefixes, part \in PathParts, marker \in {<<>>, BINARY_MARKER}}
        \cup {prefix \o Tail(BEGIN_FILE_SUFFIX) : prefix \in prefixes}
        \cup {prefix \o <<97>> : prefix \in prefixes}
        \cup {<<97>> \o BEGIN_FILE_SUFFIX, <<>>}

\* the file names of the trees whose markers are parsed: a, b, and names
\* that end with, or are, the text of the binary marker
MarkerNames == {N_a, N_b, N_a \o BINARY_MARKER, BINARY_MARKER}

\* trees of one file, text or binary, at the root or below the directory a
MarkerTrees ==
    {(<<name>> :> File(data)) : name \in MarkerNames, data \in {<<97, LF>>, <<NUL>>}}
    \cup {(<<N_a, name>> :> File(data)) @@ (<<N_a>> :> Dir) :
            name \in MarkerNames, data \in {<<97, LF>>, <<NUL>>}}

\* the file of a marker tree
MarkerFile(tree) == CHOOSE p \in DOMAIN tree : tree[p].kind = "file"

\* what the parser specification never changes
parser_unused == <<input_kind, src, prev_archive, run, items, fs, fs0, pos, conflicts,
                   current_file_handle, current_file_path, content_buffer,
                   open_handles, warnings, error, message>>

\* either a line is about to be parsed, or _process_file is about to write
\* the record of the one file of a tree
ParserInit ==
    /\ \/ /\ pc = "parse_call"
          /\ input_kind = "file"
          /\ src = EmptyTree
          /\ \E line \in ParserLines : lines = <<line>>
       \/ /\ pc = "process_file_call"
          /\ input_kind = "dir"
          /\ src \in MarkerTrees
          /\ lines = <<>>
    /\ archive = <<>>
    /\ prev_archive = archive
    /\ records = <<>>
    /\ run = 0
    /\ items = <<>>
    /\ fs = RootOnly
    /\ fs0 = fs
    /\ pos = 1
    /\ conflicts = <<>>
    /\ current_file_handle = NoPath
    /\ current_file_path = NoPath
    /\ current_file_is_binary = FALSE
    /\ expected_end_path = None
    /\ content_buffer = <<>>
    /\ open_handles = {}
    /\ warnings = <<>>
    /\ error = "none"
    /\ message = <<>>

\* _process_file writes the record of the file; its lines are then read as
\* restore reads them
ParserProcessFile ==
    /\ pc = "process_file_call"
    /\ archive' = process_file(MarkerFile(src), src[MarkerFile(src)].data)
    /\ records' = <<[kind |-> "file", path |-> MarkerFile(src),
                     binary |-> is_binary(src[MarkerFile(src)].data)]>>
    /\ lines' = readlines(archive')
    /\ pc' = "parse_call"
    /\ UNCHANGED <<current_file_is_binary, expected_end_path>>
    /\ UNCHANGED parser_unused

\* parse_begin_file_line on the first line, without its line end
ParseBegin ==
    /\ pc = "parse_call"
    /\ LET result == parse_begin_file_line(rstrip(lines[1])) IN
       /\ expected_end_path' = result[1]
       /\ current_file_is_binary' = result[2]
    /\ pc' = "parsed_begin"
    /\ UNCHANGED <<archive, records, lines>>
    /\ UNCHANGED parser_unused

\* parse_end_file_line on the last line, without its line end
ParseEnd ==
    /\ pc = "parse_call"
    /\ LET result == parse_end_file_line(rstrip(lines[Len(lines)])) IN
       /\ expected_end_path' = result[1]
       /\ current_file_is_binary' = result[2]
    /\ pc' = "parsed_end"
    /\ UNCHANGED <<archive, records, lines>>
    /\ UNCHANGED parser_unused

\* parse_empty_dir_line on the first line, without its line end
ParseEmptyDir ==
    /\ pc = "parse_call"
    /\ expected_end_path' = parse_empty_dir_line(rstrip(lines[1]))
    /\ current_file_is_binary' = FALSE
    /\ pc' = "parsed_empty_dir"
    /\ UNCHANGED <<archive, records, lines>>
    /\ UNCHANGED parser_unused

ParserNext ==
    \/ ParserProcessFile
    \/ ParseBegin
    \/ ParseEnd
    \/ ParseEmptyDir

ParserSpec == ParserInit /\ [][ParserNext]_vars

(***************************************************************************)
(* C33: a marker line is its prefix, its path, its flag and its suffix     *)
(***************************************************************************)
\* the line a marker of the given prefix makes of a path and a flag
MarkerLine(prefix, path_str, is_bin) ==
    prefix \o path_str \o (IF is_bin THEN BINARY_MARKER ELSE <<>>) \o BEGIN_FILE_SUFFIX

\* C33 (as claimed): for every line on which a parse function returns a
\* path, the line is the prefix, the path, the binary marker when the flag is
\* set, and the suffix, one after the other: the prefix and the suffix share
\* no character of the line.
C33_MarkerReconstruction ==
    /\ (pc = "parsed_begin" /\ expected_end_path # None)
          => rstrip(lines[1])
               = MarkerLine(BEGIN_FILE_PREFIX, expected_end_path, current_file_is_binary)
    /\ (pc = "parsed_end" /\ expected_end_path # None)
          => rstrip(lines[Len(lines)])
               = MarkerLine(END_FILE_PREFIX, expected_end_path, current_file_is_binary)
    /\ (pc = "parsed_empty_dir" /\ expected_end_path # None)
          => rstrip(lines[1]) = MarkerLine(EMPTY_DIR_PREFIX, expected_end_path, FALSE)

(***************************************************************************)
(* C34: the markers flatten writes parse back to the path and the flag     *)
(***************************************************************************)
\* C34 (as claimed): parsing the BEGIN and END lines flatten writes for a
\* file gives back the file's relative path and its binary flag, also when
\* the name of a text file ends with the text of the binary marker.
C34_MarkerRoundTrip ==
    (pc \in {"parsed_begin", "parsed_end"} /\ records # <<>>)
        => /\ expected_end_path = str(records[1].path)
           /\ current_file_is_binary = records[1].binary

(***************************************************************************)
(* flattener.py when the output file lies inside the source directory:     *)
(* src is the tree as it is on disk, the output file o included            *)
(***************************************************************************)
N_o == <<111>>

\* source trees before the call: the files a and x, the empty directory x,
\* with or without an output file o left by an earlier call
InsideTrees ==
    LET plain == {EmptyTree,
                  (<<N_a>> :> File(<<97, LF>>)),
                  (<<N_x>> :> File(<<97>>)),
                  (<<N_x>> :> Dir),
                  (<<N_a>> :> File(<<97, LF>>)) @@ (<<N_x>> :> File(<<97>>)),
                  (<<N_a>> :> File(<<97, LF>>)) @@ (<<N_x>> :> Dir)}
    IN  plain \cup {(<<N_o>> :> File(<<111, LF>>)) @@ tree : tree \in plain}

\* flatten is about to be called with the output file o of the source
\* directory
InsideInit ==
    /\ pc = "flatten_call"
    /\ input_kind = "dir"
    /\ src \in InsideTrees
    /\ archive = IF <<N_o>> \in DOMAIN src THEN src[<<N_o>>].data ELSE None
    /\ prev_archive = archive
    /\ fs = RootOnly
    /\ fs0 = fs
    /\ run = 0
    /\ items = <<>>
    /\ records = <<>>
    /\ NoRestore

\* ScripFlattener.flatten: open(output_file, 'w') makes or empties the file o
\* of the source directory, then rglob lists the tree, o included
InsideFlatten ==
    /\ pc = "flatten_call"
    /\ run = 0
    /\ src' = (<<N_o>> :> File(<<>>)) @@ src
    /\ \E listing \in Listings(src') : items' = sorted(listing)
    /\ prev_archive' = archive
    /\ archive' = <<>>
    /\ records' = <<>>
    /\ pc' = "flatten"
    /\ UNCHANGED <<input_kind, run, fs, fs0>>
    /\ UNCHANGED restore_vars

\* one turn of _process_directory's loop on the output file itself, when a
\* part of what was written has reached the disk: the file holds the first k
\* bytes of the text written up to its own BEGIN marker
InsideProcessOutput ==
    /\ pc = "flatten"
    /\ items # <<>>
    /\ Head(items) = <<N_o>>
    /\ LET written == encode_utf8(archive \o BeginLine(str(<<N_o>>), <<>>)) IN
       \E k \in 1..Len(written) :
          /\ src' = [src EXCEPT ![<<N_o>>] = File(SubSeq(written, 1, k))]
          /\ archive' = archive \o process_file(<<N_o>>, SubSeq(written, 1, k))
          /\ records' = Append(records, [kind |-> "file", path |-> <<N_o>>,
                                          binary |-> is_binary(SubSeq(written, 1, k))])
    /\ items' = Tail(items)
    /\ UNCHANGED <<input_kind, prev_archive, run, fs, fs0, pc>>
    /\ UNCHANGED restore_vars

InsideNext ==
    \/ InsideFlatten
    \/ ProcessEmptyDirectory
    \/ ProcessFile
    \/ InsideProcessOutput
    \/ FlattenReturn

InsideSpec == InsideInit /\ [][InsideNext]_vars

(***************************************************************************)
(* C35: the archive holds no record for itself                             *)
(***************************************************************************)
\* the entry was in the source tree before flatten was called
ExistedBefore(p) == p \in DOMAIN src /\ (p = <<N_o>> => prev_archive # None)

\* C35 (as claimed): the archive holds a record only for entries that were
\* in the source tree before flatten was called, and no record for the
\* output file itself, also when the output file is inside the source
\* directory.
C35_NoSelfRecord ==
    pc = "flattened" =>
        \A i \in DOMAIN records :
            ExistedBefore(records[i].path) /\ records[i].path # <<N_o>>

(***************************************************************************)
(* core.py: flatten_directory, as a function of the source tree            *)
(***************************************************************************)
\* what the text branch of flatten_directory writes: the file is read in
\* text mode, so '\r\n' and '\r' arrive as '\n'; a newline is added when the
\* file is not empty and the character read again at its last byte is no
\* '\n'
core_write_text_file(data) ==
    universal_newlines(decode_ignore(data))
    \o (IF Len(data) > 0
           /\ universal_newlines(decode_ignore(<<data[Len(data)]>>)) # <<LF>>
        THEN <<LF>> ELSE <<>>)

\* what flatten_directory writes for the file at relative_path
core_process_file(relative_path, data) ==
    LET is_bin == is_binary(data)
        marker == IF is_bin THEN BINARY_MARKER ELSE <<>>
    IN  BEGIN_FILE_PREFIX \o str(relative_path) \o marker \o BEGIN_FILE_SUFFIX \o <<LF>>
        \o (IF is_bin THEN b64encode(data) \o <<LF>> ELSE core_write_text_file(data))
        \o END_FILE_PREFIX \o str(relative_path) \o marker \o END_FILE_SUFFIX \o <<LF>>

\* what one turn of flatten_directory's loop writes for an item
core_process_item(tree, item) ==
    IF tree[item].kind = "dir"
    THEN IF ~has_children(tree, item)
         THEN EMPTY_DIR_PREFIX \o str(item) \o EMPTY_DIR_SUFFIX \o <<LF>>
         ELSE <<>>
    ELSE IF tree[item].kind = "file" THEN core_process_file(item, tree[item].data)
    ELSE BEGIN_FILE_PREFIX \o str(item) \o BEGIN_FILE_SUFFIX \o <<LF>>
         \o READ_ERROR_PREFIX \o ReadErrorMessage \o <<LF>>
         \o END_FILE_PREFIX \o str(item) \o END_FILE_SUFFIX \o <<LF>>

\* the archive flatten_directory writes for a tree
core_flatten_directory(tree) ==
    LET listing == sorted(CHOOSE l \in Listings(tree) : TRUE)
    IN  join([i \in DOMAIN listing |-> core_process_item(tree, listing[i])])

(***************************************************************************)
(* C36: the two flatten implementations                                    *)
(***************************************************************************)
\* no file of the source tree is taken for binary
TextFilesOnly == \A p \in DOMAIN src : src[p].kind = "file" => ~is_binary(src[p].data)

\* C36 (as claimed): for every source tree of text files, empty files and
\* files with or without a final newline included, ScripFlattener.flatten
\* writes the archive core.flatten_directory writes.
C36_SameArchive ==
    (pc = "flattened" /\ TextFilesOnly) => archive = core_flatten_directory(src)

====
